---- MODULE Spec2Model ----
(***************************************************************************)
(* Governance core and research pipeline of novel_assistant:               *)
(*   - ChapterLocker   (src/governance/chapter_locker.py)                  *)
(*   - CanonManager    (src/governance/canon_manager.py)                   *)
(*   - ReferenceLoader        (src/services/reference_loader.py)           *)
(*   - ResearchDigestor       (src/services/research_digestor.py)          *)
(*   - ResearchIngestService  (src/services/research_ingest.py)            *)
(* Python strings are atoms in the state; where the code looks inside a    *)
(* string (len, lower, replace, split, substring) the string is a sequence *)
(* of one-character strings and the code's string function is computed on  *)
(* it.  Optional values are <<>> (None) or <<v>>.                          *)
(***************************************************************************)
EXTENDS Integers, Sequences, FiniteSets, TLC

VARIABLES
    locks,        \* ChapterLocker.locks: chapter_num -> ChapterLock
    unlock_log,   \* contents of unlock_log.json (a list of entries)
    clock,        \* logical time: the value datetime.now() returns, advanced
                  \* by every call that writes a file
    lockerCall,   \* the last ChapterLocker call and how it ended
    canon,        \* CanonManager.canon (and canon_version.json, rewritten in
                  \* full by every mutation)
    changelog,    \* entries appended to canon_changelog.md
    canonCall,    \* the last CanonManager call and how it ended
    files,        \* the files under the application root: path -> content
    dirs,         \* the directories under the application root
    loadCall,     \* the last ReferenceLoader.load_for_context call
    bundle,       \* the LoadedReference it returned
    metadata,     \* ResearchDigestor.metadata["documents"]: doc_id -> record
    held,         \* history: the status and class each document id has shown
    digestCall,   \* the last ResearchDigestor call and how it ended
    registry,     \* ResearchIngestService.registry: doc id -> ResearchDocument
    second,       \* the wall clock's second, as _generate_id formats it
    ingestCall,   \* the last ResearchIngestService call and how it ended
    chapter_states, \* CanonManager.chapter_states (and chapter_states.json):
                  \* chapter name -> record
    chapterCall,  \* the last CanonManager.set_chapter_state call and how it ended
    config,       \* Settings.config
    saved_config, \* what save_config last dumped to config.yaml
    settingsCall, \* the last Settings call and how it ended
    chapters,     \* the chapters handed to the RegressionChecker
    report        \* what the last RegressionChecker call returned

lockerVars == <<locks, unlock_log, lockerCall>>
canonVars == <<canon, changelog, canonCall>>
loaderVars == <<loadCall, bundle>>
fsVars == <<files, dirs>>
digestorVars == <<metadata, held, digestCall>>
ingestVars == <<registry, second, ingestCall>>
chapterVars == <<chapter_states, chapterCall>>
settingsVars == <<config, saved_config, settingsCall>>
checkerVars == <<chapters, report>>
vars == <<locks, unlock_log, lockerCall, canon, changelog, canonCall, clock,
          files, dirs, loadCall, bundle, metadata, held, digestCall,
          registry, second, ingestCall, chapter_states, chapterCall,
          config, saved_config, settingsCall, chapters, report>>

None == <<>>
Some(v) == <<v>>

(***************************************************************************)
(* Bounds                                                                  *)
(***************************************************************************)
MaxChapter == 2      \* chapters 1..MaxChapter are operated on
MaxClock == 3        \* at most MaxClock writing ChapterLocker calls are made
MaxCanonOps == 3     \* at most MaxCanonOps writing CanonManager calls are made
MaxResearchOps == 4  \* at most MaxResearchOps writing ResearchDigestor calls are made
MaxIngestOps == 4    \* at most MaxIngestOps writing ResearchIngestService calls are made
MaxChapterOps == 2   \* at most MaxChapterOps set_chapter_state calls succeed
MaxLines == 6        \* a dialogue chapter has at most MaxLines lines

Chapters == 1..MaxChapter

(***************************************************************************)
(* Strings the callers pass, with their characters                         *)
(***************************************************************************)
Chars(s) ==
    CASE s = "" -> <<>>
      [] s = "too short" -> <<"t","o","o"," ","s","h","o","r","t">>
      [] s = "typo fixed" -> <<"t","y","p","o"," ","f","i","x","e","d">>
      [] s = "fixing typo now" ->
            <<"f","i","x","i","n","g"," ","t","y","p","o"," ","n","o","w">>
      [] s = "Canon finalized" ->
            <<"C","a","n","o","n"," ","f","i","n","a","l","i","z","e","d">>
      [] s = "tommy_age" ->
            <<"t","o","m","m","y","_","a","g","e">>
      [] s = "tommy" ->
            <<"t","o","m","m","y">>
      [] s = "19" ->
            <<"1","9">>
      [] s = "17" ->
            <<"1","7">>
      [] s = "Tommy, who was 17, walked in." ->
            <<"T","o","m","m","y",","," ","w","h","o"," ","w","a","s"," ","1","7",","," ","w","a","l","k","e","d"," ","i","n",".">>
      [] s = "Tommy age 19, they said." ->
            <<"T","o","m","m","y"," ","a","g","e"," ","1","9",","," ","t","h","e","y"," ","s","a","i","d",".">>
      [] s = "reference" ->
            <<"r","e","f","e","r","e","n","c","e">>
      [] s = "canon" ->
            <<"c","a","n","o","n">>
      [] s = "characters" ->
            <<"c","h","a","r","a","c","t","e","r","s">>
      [] s = "context" ->
            <<"c","o","n","t","e","x","t">>
      [] s = "circus_life" ->
            <<"c","i","r","c","u","s","_","l","i","f","e">>
      [] s = "artifacts" ->
            <<"a","r","t","i","f","a","c","t","s">>
      [] s = "letters" ->
            <<"l","e","t","t","e","r","s">>
      [] s = "craft" ->
            <<"c","r","a","f","t">>
      [] s = "vocabulary" ->
            <<"v","o","c","a","b","u","l","a","r","y">>
      [] s = "research" ->
            <<"r","e","s","e","a","r","c","h">>
      [] s = "MASTER_CANON.md" ->
            <<
            "M","A","S","T","E","R","_","C","A","N","O","N",".","m","d">>
      [] s = "tommy.md" ->
            <<"t","o","m","m","y",".","m","d">>
      [] s = "HISTORICAL_CONTEXT.md" ->
            <<
            "H","I","S","T","O","R","I","C","A","L","_","C","O","N","T","E",
            "X","T",".","m","d">>
      [] s = "tents.md" ->
            <<"t","e","n","t","s",".","m","d">>
      [] s = "ARTIFACT_INDEX.md" ->
            <<
            "A","R","T","I","F","A","C","T","_","I","N","D","E","X",".","m",
            "d">>
      [] s = "letter1.md" ->
            <<"l","e","t","t","e","r","1",".","m","d">>
      [] s = "STYLE_CHARTER.md" ->
            <<
            "S","T","Y","L","E","_","C","H","A","R","T","E","R",".","m","d">>
      [] s = "slang.md" ->
            <<"s","l","a","n","g",".","m","d">>
      [] s = "Tommy is 19." ->
            <<"T","o","m","m","y"," ","i","s"," ","1","9",".">>
      [] s = "Tommy: acrobat." ->
            <<
            "T","o","m","m","y",":"," ","a","c","r","o","b","a","t",".">>
      [] s = "radio was common" ->
            <<
            "r","a","d","i","o"," ","w","a","s"," ","c","o","m","m","o","n">>
      [] s = "Canvas tents." ->
            <<
            "C","a","n","v","a","s"," ","t","e","n","t","s",".">>
      [] s = "Index of letters." ->
            <<
            "I","n","d","e","x"," ","o","f"," ","l","e","t","t","e","r","s",
            ".">>
      [] s = "Dear Ma, the show moved on." ->
            <<
            "D","e","a","r"," ","M","a",","," ","t","h","e"," ","s","h","o",
            "w"," ","m","o","v","e","d"," ","o","n",".">>
      [] s = "Short sentences." ->
            <<
            "S","h","o","r","t"," ","s","e","n","t","e","n","c","e","s",".">>
      [] s = "swell" ->
            <<"s","w","e","l","l">>
      [] s = "letter1" ->
            <<"l","e","t","t","e","r","1">>
      [] s = ".md" ->
            <<".","m","d">>
      [] s = "doc_" ->
            <<"d","o","c","_">>
      [] s = "_digest.md" ->
            <<"_","d","i","g","e","s","t",".","m","d">>
      [] s = "20240101_12000" ->
            <<
            "2","0","2","4","0","1","0","1","_","1","2","0","0","0">>
      [] s = "copy.md" ->
            <<"c","o","p","y",".","m","d">>
      [] s = "notes_digest.md" ->
            <<
            "n","o","t","e","s","_","d","i","g","e","s","t",".","m","d">>
      [] s = "lost_digest.md" ->
            <<
            "l","o","s","t","_","d","i","g","e","s","t",".","m","d">>
      [] s = "intake" ->
            <<"i","n","t","a","k","e">>
      [] s = "canon_staging" ->
            <<
            "c","a","n","o","n","_","s","t","a","g","i","n","g">>
      [] s = "locations" ->
            <<"l","o","c","a","t","i","o","n","s">>
      [] s = "historical" ->
            <<"h","i","s","t","o","r","i","c","a","l">>
      [] s = "raw_sources" ->
            <<"r","a","w","_","s","o","u","r","c","e","s">>
      [] s = "digests" ->
            <<"d","i","g","e","s","t","s">>
      [] s = "rejected" ->
            <<"r","e","j","e","c","t","e","d">>
      [] s = "notes.md" ->
            <<"n","o","t","e","s",".","m","d">>
      [] s = "tents.txt" ->
            <<"t","e","n","t","s",".","t","x","t">>
      [] s = "gone.md" ->
            <<"g","o","n","e",".","m","d">>
      [] s = "26b1720ad323" ->
            <<"2","6","b","1","7","2","0","a","d","3","2","3">>
      [] s = "3b5174b8cb08" ->
            <<"3","b","5","1","7","4","b","8","c","b","0","8">>
      [] s = "_digest.json" ->
            <<"_","d","i","g","e","s","t",".","j","s","o","n">>
      [] s = ".txt" ->
            <<".","t","x","t">>
      [] s = "{\"facts\":[],\"period_details\":[\"radio was common\"]}" ->
            <<
            "{","\"","f","a","c","t","s","\"",":","[","]",",","\"","p","e",
            "r","i","o","d","_","d","e","t","a","i","l","s","\"",":","[",
            "\"","r","a","d","i","o"," ","w","a","s"," ","c","o","m","m",
            "o","n","\"","]","}">>
      [] s = "Here: {\"facts\":[]} done" ->
            <<
            "H","e","r","e",":"," ","{","\"","f","a","c","t","s","\"",":",
            "[","]","}"," ","d","o","n","e">>
      [] s = "no facts found" ->
            <<
            "n","o"," ","f","a","c","t","s"," ","f","o","u","n","d">>
      [] s = "{oops}" ->
            <<"{","o","o","p","s","}">>
      [] s = "{}" ->
            <<"{","}">>
      [] s = "{\"facts\":[]}" ->
            <<"{","\"","f","a","c","t","s","\"",":","[","]","}">>
      [] s = "\"Go.\"" ->
            <<
            "\"","G","o",".","\"">>
      [] s = "\"Go,\" she said." ->
            <<
            "\"","G","o",",","\""," ","s","h","e"," ","s","a","i","d",".">>
      [] s = "Tommy was 17 years old." ->
            <<
            "T","o","m","m","y"," ","w","a","s"," ","1","7"," ","y","e",
            "a","r","s"," ","o","l","d",".">>
      [] s = "Tommy, aged 19, ran to the Big Top." ->
            <<
            "T","o","m","m","y",","," ","a","g","e","d"," ","1","9",",",
            " ","r","a","n"," ","t","o"," ","t","h","e"," ","B","i","g",
            " ","T","o","p",".">>
      [] s = "The big top rose on Monday, May 3, 1954." ->
            <<
            "T","h","e"," ","b","i","g"," ","t","o","p"," ","r","o","s",
            "e"," ","o","n"," ","M","o","n","d","a","y",","," ","M","a",
            "y"," ","3",","," ","1","9","5","4",".">>
      [] s = "A 17-year-old Tommy held the pocket watch under the big top." ->
            <<
            "A"," ","1","7","-","y","e","a","r","-","o","l","d"," ","T",
            "o","m","m","y"," ","h","e","l","d"," ","t","h","e"," ","p",
            "o","c","k","e","t"," ","w","a","t","c","h"," ","u","n","d",
            "e","r"," ","t","h","e"," ","b","i","g"," ","t","o","p",".">>
      [] s = "No one came on 5/3/54." ->
            <<
            "N","o"," ","o","n","e"," ","c","a","m","e"," ","o","n"," ",
            "5","/","3","/","5","4",".">>
      [] s = "chapter_01" ->
            <<
            "c","h","a","p","t","e","r","_","0","1">>
      [] s = "chapter_02" ->
            <<
            "c","h","a","p","t","e","r","_","0","2">>
      [] s = "big_top" ->
            <<
            "b","i","g","_","t","o","p">>
      [] s = "main tent" ->
            <<
            "m","a","i","n"," ","t","e","n","t">>
      [] s = "opening_night" ->
            <<
            "o","p","e","n","i","n","g","_","n","i","g","h","t">>
      [] s = "Monday, May 3, 1954" ->
            <<
            "M","o","n","d","a","y",","," ","M","a","y"," ","3",","," ",
            "1","9","5","4">>
      [] s = "pocket_watch" ->
            <<
            "p","o","c","k","e","t","_","w","a","t","c","h">>
      [] s = "gold" ->
            <<
            "g","o","l","d">>
      [] s = "year" ->
            <<
            "y","e","a","r">>
      [] s = "s" ->
            <<
            "s">>
      [] s = "old" ->
            <<
            "o","l","d">>
      [] s = "age" ->
            <<
            "a","g","e">>
      [] s = "-year-old" ->
            <<
            "-","y","e","a","r","-","o","l","d">>
      [] s = "st" ->
            <<
            "s","t">>
      [] s = "nd" ->
            <<
            "n","d">>
      [] s = "rd" ->
            <<
            "r","d">>
      [] s = "th" ->
            <<
            "t","h">>
      [] s = "january" ->
            <<
            "j","a","n","u","a","r","y">>
      [] s = "february" ->
            <<
            "f","e","b","r","u","a","r","y">>
      [] s = "march" ->
            <<
            "m","a","r","c","h">>
      [] s = "april" ->
            <<
            "a","p","r","i","l">>
      [] s = "may" ->
            <<
            "m","a","y">>
      [] s = "june" ->
            <<
            "j","u","n","e">>
      [] s = "july" ->
            <<
            "j","u","l","y">>
      [] s = "august" ->
            <<
            "a","u","g","u","s","t">>
      [] s = "september" ->
            <<
            "s","e","p","t","e","m","b","e","r">>
      [] s = "october" ->
            <<
            "o","c","t","o","b","e","r">>
      [] s = "november" ->
            <<
            "n","o","v","e","m","b","e","r">>
      [] s = "december" ->
            <<
            "d","e","c","e","m","b","e","r">>
      [] s = "monday" ->
            <<
            "m","o","n","d","a","y">>
      [] s = "tuesday" ->
            <<
            "t","u","e","s","d","a","y">>
      [] s = "wednesday" ->
            <<
            "w","e","d","n","e","s","d","a","y">>
      [] s = "thursday" ->
            <<
            "t","h","u","r","s","d","a","y">>
      [] s = "friday" ->
            <<
            "f","r","i","d","a","y">>
      [] s = "saturday" ->
            <<
            "s","a","t","u","r","d","a","y">>
      [] s = "sunday" ->
            <<
            "s","u","n","d","a","y">>
      [] s = "said" ->
            <<
            "s","a","i","d">>
      [] s = "asked" ->
            <<
            "a","s","k","e","d">>
      [] s = "replied" ->
            <<
            "r","e","p","l","i","e","d">>
      [] s = "answered" ->
            <<
            "a","n","s","w","e","r","e","d">>
      [] s = "whispered" ->
            <<
            "w","h","i","s","p","e","r","e","d">>
      [] s = "shouted" ->
            <<
            "s","h","o","u","t","e","d">>
      [] s = "muttered" ->
            <<
            "m","u","t","t","e","r","e","d">>
      [] s = "called" ->
            <<
            "c","a","l","l","e","d">>
      [] s = "yelled" ->
            <<
            "y","e","l","l","e","d">>
      [] s = "told" ->
            <<
            "t","o","l","d">>
      [] s = "spoke" ->
            <<
            "s","p","o","k","e">>

len(s) == Len(Chars(s))

\* reasons callers pass to unlock: empty, 9, 10 and 15 characters
UnlockReasons == {"", "too short", "typo fixed", "fixing typo now"}
\* reasons callers pass to set_state: omitted (default "") or given
LockReasons == {"", "Canon finalized"}
Users == {"author"}

(***************************************************************************)
(* ChapterState                                                            *)
(***************************************************************************)
DRAFT == "draft"
REVISED == "revised"
CANON_LOCKED == "canon_locked"
PUBLISHED == "published"
ChapterState == {DRAFT, REVISED, CANON_LOCKED, PUBLISHED}

\* chapters/chapter_NN.md as found on disk: chapter 1 exists, others do not
get_chapter_info(chapter_num) ==
    IF chapter_num = 1
    THEN [path |-> Some("chapters/chapter_01.md"),
          modified |-> Some("2024-01-01T00:00:00"), words |-> 3]
    ELSE [path |-> None, modified |-> None, words |-> 0]

ChapterLock(chapter_num, state, locked_at, locked_by, lock_reason, last_modified, word_count, revision_count) ==
    [chapter_num |-> chapter_num, state |-> state, locked_at |-> locked_at,
     locked_by |-> locked_by, lock_reason |-> lock_reason,
     last_modified |-> last_modified, word_count |-> word_count,
     revision_count |-> revision_count]

default_state == DRAFT

\* ChapterLocker.get_state on a lock table lk
get_state(lk, chapter_num) ==
    IF chapter_num \in DOMAIN lk
    THEN lk[chapter_num]
    ELSE LET info == get_chapter_info(chapter_num) IN
         ChapterLock(chapter_num, default_state, None, None, None,
                     info.modified, info.words, 0)

valid_transitions_published_reopens ==
    [s \in ChapterState |->
        CASE s = DRAFT -> {REVISED, CANON_LOCKED}
          [] s = REVISED -> {DRAFT, CANON_LOCKED, PUBLISHED}
          [] s = CANON_LOCKED -> {}
          [] s = PUBLISHED -> {DRAFT}]

valid_transitions_draft_publishes ==
    [s \in ChapterState |->
        CASE s = DRAFT -> {REVISED, CANON_LOCKED, PUBLISHED}
          [] s = REVISED -> {DRAFT, CANON_LOCKED, PUBLISHED}
          [] s = CANON_LOCKED -> {}
          [] s = PUBLISHED -> {}]

\* set_state's table of valid transitions
valid_transitions ==
    [s \in ChapterState |->
        CASE s = DRAFT -> {REVISED, CANON_LOCKED}
          [] s = REVISED -> {DRAFT, CANON_LOCKED, PUBLISHED}
          [] s = CANON_LOCKED -> {}
          [] s = PUBLISHED -> {}]

is_locking(state) == state \in {CANON_LOCKED, PUBLISHED}

\* ChapterLocker.set_state as a function of the lock table and the time:
\* the outcome (returned or raised) and the lock table it leaves
set_state(lk, now, chapter_num, new_state, reason, by) ==
    LET current == get_state(lk, chapter_num)
        current_state == current.state
    IN  IF new_state \notin valid_transitions[current_state]
        THEN [raised |-> TRUE,
              error |-> IF current_state = CANON_LOCKED THEN "locked_use_unlock"
                        ELSE IF current_state = PUBLISHED THEN "published"
                        ELSE "invalid_transition",
              locks |-> lk, writes |-> FALSE]
        ELSE LET info == get_chapter_info(chapter_num)
                 lock == ChapterLock(
                     chapter_num, new_state,
                     IF is_locking(new_state) THEN Some(now) ELSE None,
                     IF is_locking(new_state) THEN Some(by) ELSE None,
                     IF is_locking(new_state) THEN Some(reason) ELSE None,
                     info.modified, info.words,
                     current.revision_count
                        + (IF new_state = REVISED THEN 1 ELSE 0))
             IN [raised |-> FALSE, error |-> "",
                 locks |-> [c \in (DOMAIN lk) \cup {chapter_num} |->
                               IF c = chapter_num THEN lock ELSE lk[c]],
                 writes |-> TRUE]

MIN_REASON == 10

reason_rejected_only_empty(reason) == reason = ""

\* unlock's reason check: "not reason or len(reason) < 10"
reason_rejected(reason) == reason = "" \/ len(reason) < MIN_REASON

(***************************************************************************)
(* Python string functions, on sequences of characters                     *)
(***************************************************************************)
UpperCase == <<"A","B","C","D","E","F","G","H","I","J","K","L","M",
               "N","O","P","Q","R","S","T","U","V","W","X","Y","Z">>
LowerCase == <<"a","b","c","d","e","f","g","h","i","j","k","l","m",
               "n","o","p","q","r","s","t","u","v","w","x","y","z">>

\* str.lower()
lower(cs) ==
    [i \in DOMAIN cs |->
        IF \E j \in DOMAIN UpperCase : UpperCase[j] = cs[i]
        THEN LowerCase[CHOOSE j \in DOMAIN UpperCase : UpperCase[j] = cs[i]]
        ELSE cs[i]]

\* str.replace(old, new) for one-character old and new
replace(cs, old, new) == [i \in DOMAIN cs |-> IF cs[i] = old THEN new ELSE cs[i]]

\* "needle in hay"
contains(hay, needle) ==
    \E i \in 0..(Len(hay) - Len(needle)) :
        \A j \in 1..Len(needle) : hay[i + j] = needle[j]

Digits == <<"0","1","2","3","4","5","6","7","8","9">>

\* str(n) for n >= 0
RECURSIVE str(_)
str(n) == IF n < 10 THEN <<Digits[n + 1]>>
          ELSE str(n \div 10) \o <<Digits[(n % 10) + 1]>>

\* int(s) for a string of decimal digits
RECURSIVE int(_)
int(cs) ==
    IF Len(cs) = 0 THEN 0
    ELSE int(SubSeq(cs, 1, Len(cs) - 1)) * 10
         + ((CHOOSE d \in DOMAIN Digits : Digits[d] = cs[Len(cs)]) - 1)

\* str.split(sep)
RECURSIVE split(_, _)
split(cs, sep) ==
    IF \A i \in DOMAIN cs : cs[i] # sep THEN <<cs>>
    ELSE LET i == CHOOSE k \in DOMAIN cs :
                     cs[k] = sep /\ \A m \in 1..(k - 1) : cs[m] # sep
         IN <<SubSeq(cs, 1, i - 1)>> \o split(SubSeq(cs, i + 1, Len(cs)), sep)

(***************************************************************************)
(* CanonManager                                                            *)
(***************************************************************************)
\* a Python dict, in insertion order: a sequence of [key, val]
dict_keys(d) == {d[i].key : i \in DOMAIN d}
dict_get(d, k) == d[CHOOSE i \in DOMAIN d : d[i].key = k].val
dict_set(d, k, v) ==
    IF k \in dict_keys(d)
    THEN [i \in DOMAIN d |-> IF d[i].key = k THEN [key |-> k, val |-> v] ELSE d[i]]
    ELSE Append(d, [key |-> k, val |-> v])

\* the categories validate_against_canon and get_all_facts walk, in order
FactCategories == <<"characters", "timeline", "locations", "objects", "facts">>

\* CanonManager._create_default_canon (the novel block is never written)
create_default_canon(now) ==
    [version |-> <<"1", ".", "0", ".", "0">>,
     last_update |-> now,
     data |-> [c \in {FactCategories[i] : i \in DOMAIN FactCategories} |-> <<>>]]

bump_version_keeps_patch(version, bump_type) ==
    LET parts == split(version, ".")
        major == int(parts[1])
        minor == int(parts[2])
        patch == int(parts[3])
        new == IF bump_type = "major" THEN <<major + 1, 0, 0>>
               ELSE IF bump_type = "minor" THEN <<major, minor + 1, patch>>
               ELSE <<major, minor, patch + 1>>
    IN str(new[1]) \o <<".">> \o str(new[2]) \o <<".">> \o str(new[3])

\* CanonManager._bump_version on a version string
bump_version(version, bump_type) ==
    LET parts == split(version, ".")
        major == int(parts[1])
        minor == int(parts[2])
        patch == int(parts[3])
        new == IF bump_type = "major" THEN <<major + 1, 0, 0>>
               ELSE IF bump_type = "minor" THEN <<major, minor + 1, 0>>
               ELSE <<major, minor, patch + 1>>
    IN str(new[1]) \o <<".">> \o str(new[2]) \o <<".">> \o str(new[3])

\* CanonManager.get_fact: None or the fact
get_fact(cn, fact_key, category) ==
    IF category \in DOMAIN cn.data /\ fact_key \in dict_keys(cn.data[category])
    THEN Some(dict_get(cn.data[category], fact_key))
    ELSE None

changelog_entry(now, action, details, affected_chapters) ==
    [timestamp |-> now, action |-> action, details |-> details,
     affected_chapters |-> affected_chapters]

\* CanonManager.add_fact: the canon and the changelog it leaves
add_fact(cn, log, now, fact_key, fact_value, source_chapter, category) ==
    LET data1 == IF category \in DOMAIN cn.data THEN cn.data
                 ELSE [c \in DOMAIN cn.data \cup {category} |->
                          IF c = category THEN <<>> ELSE cn.data[c]]
        fact == [value |-> fact_value, source_chapter |-> source_chapter,
                 created |-> now, updated |-> now, history |-> <<>>]
        data2 == [data1 EXCEPT ![category] = dict_set(@, fact_key, fact)]
    IN [raised |-> FALSE,
        canon |-> [version |-> bump_version(cn.version, "patch"),
                   last_update |-> now, data |-> data2],
        changelog |-> Append(log, changelog_entry(now, "ADD_FACT",
                          <<category, fact_key, fact_value>>,
                          <<source_chapter>>))]

\* update_fact's guard: the category or the key is absent
fact_missing(cn, fact_key, category) ==
    \/ category \notin DOMAIN cn.data
    \/ fact_key \notin dict_keys(cn.data[category])

updated_fact_overwrites(fact, new_value, reason, now) ==
    [fact EXCEPT !.value = new_value, !.updated = now]

\* update_fact's change of the fact record: history entry, value, updated
updated_fact(fact, new_value, reason, now) ==
    [fact EXCEPT !.history = Append(@, [old_value |-> fact.value,
                                        changed |-> now,
                                        reason |-> reason]),
                 !.value = new_value,
                 !.updated = now]

\* update_fact past its guard: the canon and changelog it leaves
update_existing(cn, log, now, fact_key, new_value, reason, affected_chapters, category) ==
    LET fact == dict_get(cn.data[category], fact_key)
        old_value == fact.value
        fact2 == updated_fact(fact, new_value, reason, now)
    IN [raised |-> FALSE,
        canon |-> [version |-> bump_version(cn.version, "minor"),
                   last_update |-> now,
                   data |-> [cn.data EXCEPT ![category] =
                                dict_set(@, fact_key, fact2)]],
        changelog |-> Append(log, changelog_entry(now, "UPDATE_FACT",
                          <<category, fact_key, old_value, new_value, reason>>,
                          affected_chapters))]

update_fact_upserts(cn, log, now, fact_key, new_value, reason, affected_chapters, category) ==
    IF fact_missing(cn, fact_key, category)
    THEN add_fact(cn, log, now, fact_key, new_value, "", category)
    ELSE update_existing(cn, log, now, fact_key, new_value, reason,
                         affected_chapters, category)

\* CanonManager.update_fact: raises KeyError, or the canon and changelog it leaves
update_fact(cn, log, now, fact_key, new_value, reason, affected_chapters, category) ==
    IF fact_missing(cn, fact_key, category)
    THEN [raised |-> TRUE, canon |-> cn, changelog |-> log]
    ELSE update_existing(cn, log, now, fact_key, new_value, reason,
                         affected_chapters, category)

\* the findings of one category, walking its facts from position i on
RECURSIVE category_issues(_, _, _, _)
category_issues(category, facts, text_lower, i) ==
    IF i > Len(facts) THEN <<>>
    ELSE LET fact_key == facts[i].key
             value == facts[i].val.value
             flagged ==
                 /\ contains(text_lower,
                             replace(lower(Chars(fact_key)), "_", " "))
                 /\ ~contains(text_lower, lower(Chars(value)))
         IN (IF flagged
             THEN <<[type |-> "potential_inconsistency",
                     category |-> category, fact_key |-> fact_key,
                     canon_value |-> value, severity |-> "warning"]>>
             ELSE <<>>)
            \o category_issues(category, facts, text_lower, i + 1)

\* CanonManager.validate_against_canon: the list of issues
RECURSIVE validate_from(_, _, _)
validate_from(cn, text_lower, c) ==
    IF c > Len(FactCategories) THEN <<>>
    ELSE LET category == FactCategories[c]
             facts == IF category \in DOMAIN cn.data THEN cn.data[category]
                      ELSE <<>>
         IN category_issues(category, facts, text_lower, 1)
            \o validate_from(cn, text_lower, c + 1)

validate_against_canon(cn, chapter_text) ==
    validate_from(cn, lower(Chars(chapter_text)), 1)

(***************************************************************************)
(* Inputs of the CanonManager calls                                        *)
(***************************************************************************)
FactKeys == {"tommy_age", "tommy"}
FactValues == {"19", "17"}
\* "facts" is a default category, "themes" one the caller makes up
CallCategories == {"facts", "themes"}
SourceChapters == {"Chapter 1"}
UpdateReasons == {"retcon"}
ChapterTexts == {"Tommy, who was 17, walked in.", "Tommy age 19, they said."}


(***************************************************************************)
(* More Python string and path functions                                   *)
(***************************************************************************)
\* s[:n] for n >= 0
slice(cs, n) == SubSeq(cs, 1, IF n <= Len(cs) THEN n ELSE Len(cs))

\* str.endswith
endswith(cs, suf) ==
    /\ Len(suf) <= Len(cs)
    /\ SubSeq(cs, Len(cs) - Len(suf) + 1, Len(cs)) = suf

\* sep.join(parts)
RECURSIVE join(_, _)
join(sep, items) ==
    IF Len(items) = 0 THEN <<>>
    ELSE IF Len(items) = 1 THEN items[1]
    ELSE items[1] \o sep \o join(sep, Tail(items))

\* the position of the last "." of a file name that starts its suffix, or 0
suffix_start(name) ==
    IF \E i \in 2..Len(name) : name[i] = "."
    THEN CHOOSE i \in 2..Len(name) :
            name[i] = "." /\ \A j \in (i + 1)..Len(name) : name[j] # "."
    ELSE 0

\* PurePath.stem and PurePath.suffix
stem(name) ==
    IF suffix_start(name) = 0 \/ suffix_start(name) = Len(name) THEN name
    ELSE SubSeq(name, 1, suffix_start(name) - 1)
suffix(name) ==
    IF suffix_start(name) = 0 \/ suffix_start(name) = Len(name) THEN <<>>
    ELSE SubSeq(name, suffix_start(name), Len(name))

\* ord(c) for the characters of the model's strings: their place in code
\* point order
ord(c) ==
    LET CodePoints ==
            <<"\n", " ", "#", "(", ")", ",", "-", ".", "/",
             "0", "1", "2", "3", "4", "5", "6", "7", "8", "9", ":",
             "A", "B", "C", "D", "E", "F", "G", "H", "I", "J", "K", "L",
             "M", "N", "O", "P", "Q", "R", "S", "T", "U", "V", "W", "X",
             "Y", "Z", "_",
             "a", "b", "c", "d", "e", "f", "g", "h", "i", "j", "k", "l",
             "m", "n", "o", "p", "q", "r", "s", "t", "u", "v", "w", "x",
             "y", "z", "{", "}">>
    IN CHOOSE i \in DOMAIN CodePoints : CodePoints[i] = c

\* a < b for strings
RECURSIVE str_less(_, _)
str_less(a, b) ==
    IF Len(b) = 0 THEN FALSE
    ELSE IF Len(a) = 0 THEN TRUE
    ELSE IF a[1] # b[1] THEN ord(a[1]) < ord(b[1])
    ELSE str_less(Tail(a), Tail(b))

(***************************************************************************)
(* The file system: a path is [dir, name], dir a sequence of directory     *)
(* names and name the characters of the file name; a text file's content   *)
(* is <<"text", s>>                                                       *)
(***************************************************************************)
Path(dir, name) == [dir |-> dir, name |-> name]
TextFile(s) == <<"text", s>>
read_text(fs, p) == Chars(fs[p][2])

\* p < q for paths: part by part
RECURSIVE parts_less(_, _)
parts_less(a, b) ==
    IF Len(b) = 0 THEN FALSE
    ELSE IF Len(a) = 0 THEN TRUE
    ELSE IF a[1] # b[1] THEN str_less(a[1], b[1])
    ELSE parts_less(Tail(a), Tail(b))

\* sorted(paths): paths compare part by part
RECURSIVE sorted(_)
sorted(ps) ==
    IF ps = {} THEN <<>>
    ELSE LET \* Path.parts, each part as characters
             path_parts(p) == [i \in 1..Len(p.dir) |-> Chars(p.dir[i])] \o <<p.name>>
             first == CHOOSE p \in ps :
                \A q \in ps \ {p} : parts_less(path_parts(p), path_parts(q))
         IN <<first>> \o sorted(ps \ {first})

is_under(dir, p) == Len(dir) <= Len(p.dir) /\ SubSeq(p.dir, 1, Len(dir)) = dir

\* every directory on the way to dir, and dir
ancestors(dir) == {SubSeq(dir, 1, n) : n \in 1..Len(dir)}

(***************************************************************************)
(* ReferenceLoader                                                         *)
(***************************************************************************)
CANON == "canon"
CONTEXT == "context"
ARTIFACT == "artifact"
CRAFT == "craft"
ResearchClass == {CANON, CONTEXT, ARTIFACT, CRAFT}

LoadingContext == {"drafting", "revision", "consistency", "style", "scene", "full"}

CONTEXT_RULES_style_loads_canon ==
    [c \in LoadingContext |->
       CASE c = "drafting" -> [canon |-> TRUE, context |-> TRUE, artifact |-> FALSE, craft |-> FALSE]
         [] c = "revision" -> [canon |-> TRUE, context |-> FALSE, artifact |-> FALSE, craft |-> TRUE]
         [] c = "consistency" -> [canon |-> TRUE, context |-> TRUE, artifact |-> FALSE, craft |-> FALSE]
         [] c = "style" -> [canon |-> TRUE, context |-> FALSE, artifact |-> FALSE, craft |-> TRUE]
         [] c = "scene" -> [canon |-> TRUE, context |-> TRUE, artifact |-> TRUE, craft |-> FALSE]
         [] c = "full" -> [canon |-> TRUE, context |-> TRUE, artifact |-> TRUE, craft |-> TRUE]]

\* ReferenceLoader.CONTEXT_RULES
CONTEXT_RULES ==
    [c \in LoadingContext |->
       CASE c = "drafting" -> [canon |-> TRUE, context |-> TRUE, artifact |-> FALSE, craft |-> FALSE]
         [] c = "revision" -> [canon |-> TRUE, context |-> FALSE, artifact |-> FALSE, craft |-> TRUE]
         [] c = "consistency" -> [canon |-> TRUE, context |-> TRUE, artifact |-> FALSE, craft |-> FALSE]
         [] c = "style" -> [canon |-> FALSE, context |-> FALSE, artifact |-> FALSE, craft |-> TRUE]
         [] c = "scene" -> [canon |-> TRUE, context |-> TRUE, artifact |-> TRUE, craft |-> FALSE]
         [] c = "full" -> [canon |-> TRUE, context |-> TRUE, artifact |-> TRUE, craft |-> TRUE]]

\* ReferenceLoader.CLASS_HEADERS
CLASS_HEADERS ==
    [canon |-> <<
        "\n","#"," ","C","A","N","O","N"," ","R","E","F","E","R","E","N",
        "C","E"," ","(","A","u","t","h","o","r","i","t","a","t","i","v","e",
        ")","\n","T","h","e"," ","f","o","l","l","o","w","i","n","g"," ",
        "f","a","c","t","s"," ","a","r","e"," ","E","S","T","A","B","L","I",
        "S","H","E","D"," ","i","n"," ","t","h","e"," ","n","o","v","e","l",
        "."," ","T","h","e","y"," ","c","a","n","n","o","t"," ","b","e"," ",
        "c","o","n","t","r","a","d","i","c","t","e","d",".","\n","U","s",
        "e"," ","t","h","e","s","e"," ","a","s"," ","c","o","n","s","t","r",
        "a","i","n","t","s","."," ","I","f"," ","s","o","m","e","t","h","i",
        "n","g"," ","c","o","n","f","l","i","c","t","s"," ","w","i","t","h",
        " ","c","a","n","o","n",","," ","c","a","n","o","n"," ","w","i","n",
        "s",".","\n">>,
     context |-> <<
        "\n","#"," ","C","O","N","T","E","X","T","U","A","L"," ","B","A",
        "C","K","G","R","O","U","N","D"," ","(","N","o","n","-","A","u","t",
        "h","o","r","i","t","a","t","i","v","e",")","\n","T","h","e"," ",
        "f","o","l","l","o","w","i","n","g"," ","p","r","o","v","i","d","e",
        "s"," ","h","i","s","t","o","r","i","c","a","l","/","c","u","l","t",
        "u","r","a","l"," ","c","o","n","t","e","x","t","."," ","U","s","e",
        " ","f","o","r"," ","p","l","a","u","s","i","b","i","l","i","t","y",
        " ","c","h","e","c","k","s",".","\n","N","E","V","E","R"," ","n",
        "a","r","r","a","t","e"," ","t","h","i","s"," ","i","n","f","o","r",
        "m","a","t","i","o","n"," ","d","i","r","e","c","t","l","y"," ","t",
        "o"," ","t","h","e"," ","r","e","a","d","e","r",".","\n","T","h",
        "i","s"," ","i","s"," ","p","r","e","s","s","u","r","e",","," ","n",
        "o","t"," ","c","o","n","t","e","n","t",".","\n">>,
     artifact |-> <<
        "\n","#"," ","A","R","T","I","F","A","C","T","S"," ","(","S","c",
        "e","n","e"," ","T","r","i","g","g","e","r","s",")","\n","T","h",
        "e"," ","f","o","l","l","o","w","i","n","g"," ","a","r","e"," ","i",
        "n","-","w","o","r","l","d"," ","d","o","c","u","m","e","n","t","s",
        " ","t","h","a","t"," ","c","a","n"," ","t","r","i","g","g","e","r",
        " ","s","c","e","n","e","s"," ","o","r"," ","m","e","m","o","r","i",
        "e","s",".","\n","E","x","p","e","r","i","e","n","c","e"," ","t",
        "h","e","s","e"," ","t","h","r","o","u","g","h"," ","c","h","a","r",
        "a","c","t","e","r"," ","P","O","V","."," ","M","e","a","n","i","n",
        "g"," ","c","o","m","e","s"," ","f","r","o","m"," ","c","o","n","t",
        "r","a","s","t",","," ","n","o","t"," ","e","x","p","o","s","i","t",
        "i","o","n",".","\n","N","E","V","E","R"," ","s","u","m","m","a",
        "r","i","z","e"," ","t","h","e","s","e"," ","g","e","n","e","r","i",
        "c","a","l","l","y",".","\n">>,
     craft |-> <<
        "\n","#"," ","C","R","A","F","T"," ","G","U","I","D","A","N","C",
        "E"," ","(","E","d","i","t","o","r","i","a","l"," ","O","n","l","y",
        ")","\n","T","h","e"," ","f","o","l","l","o","w","i","n","g"," ",
        "g","u","i","d","e","s"," ","H","O","W"," ","t","o"," ","w","r","i",
        "t","e",","," ","n","o","t"," ","W","H","A","T"," ","t","o"," ","w",
        "r","i","t","e",".","\n","A","p","p","l","y"," ","d","u","r","i",
        "n","g"," ","r","e","v","i","s","i","o","n","."," ","N","e","v","e",
        "r"," ","i","n","j","e","c","t"," ","i","n","t","o"," ","n","a","r",
        "r","a","t","i","v","e",".","\n","T","h","i","s"," ","i","s"," ",
        "s","c","a","f","f","o","l","d","i","n","g",","," ","n","o","t"," ",
        "s","t","o","r","y"," ","m","a","t","e","r","i","a","l",".","\n">>]

estimate_tokens_rounds_up(text) == (Len(text) + 3) \div 4

\* ReferenceLoader._estimate_tokens
estimate_tokens(text) == Len(text) \div 4

reference_dir == <<"reference">>

\* ReferenceLoader._load_directory with pattern "*.md"
load_directory(fs, ds, directory) ==
    IF directory \notin ds THEN <<>>
    ELSE LET found == sorted({p \in DOMAIN fs :
                                 is_under(directory, p)
                                 /\ endswith(p.name, Chars(".md"))})
             entry(p) == <<"\n", "#", "#", " ">> \o stem(p.name)
                         \o <<"\n", "\n">> \o read_text(fs, p)
         IN join(<<"\n">>, [i \in DOMAIN found |-> entry(found[i])])

\* the text of one named file when it exists, as a list of 0 or 1 parts
file_part(fs, p) == IF p \in DOMAIN fs THEN <<read_text(fs, p)>> ELSE <<>>

\* "\n## Title\n" and the directory's files, when the directory exists
titled_directory_part(fs, ds, directory, title) ==
    IF directory \in ds
    THEN <<<<"\n", "#", "#", " ">> \o title \o <<"\n">>,
           load_directory(fs, ds, directory)>>
    ELSE <<>>

\* ReferenceLoader._load_canon (timeline, plot and relationship files are not
\* among the files of the model)
load_canon(fs, ds) ==
    LET canon_dir == reference_dir \o <<"canon">>
    IN join(<<"\n", "\n">>,
            file_part(fs, Path(canon_dir, Chars("MASTER_CANON.md")))
            \o titled_directory_part(fs, ds, canon_dir \o <<"characters">>,
                                     <<"C","h","a","r","a","c","t","e","r","s">>))

\* ReferenceLoader._load_context (of its four subdirectories, circus_life is
\* among the directories of the model)
load_context(fs, ds) ==
    LET context_dir == reference_dir \o <<"context">>
    IN join(<<"\n", "\n">>,
            file_part(fs, Path(context_dir, Chars("HISTORICAL_CONTEXT.md")))
            \o titled_directory_part(fs, ds, context_dir \o <<"circus_life">>,
                                     <<"C","i","r","c","u","s"," ","L","i","f","e">>))

\* ReferenceLoader._load_artifacts; artifact_ids is None or a list of at most
\* one id, so the order of rglob's matches does not matter; of postcards and
\* letters, letters is among the directories of the model
load_artifacts(fs, ds, artifact_ids) ==
    LET artifacts_dir == reference_dir \o <<"artifacts">>
        index_file == Path(artifacts_dir, Chars("ARTIFACT_INDEX.md"))
    IN IF artifacts_dir \notin ds THEN <<>>
       ELSE IF artifact_ids # None /\ artifact_ids # <<>>
       THEN LET aid == Chars(artifact_ids[1])
                found == sorted({p \in DOMAIN fs :
                                   /\ is_under(artifacts_dir, p)
                                   /\ contains(p.name, aid)
                                   /\ p.name # Chars("ARTIFACT_INDEX.md")})
            IN join(<<"\n", "\n">>,
                    file_part(fs, index_file)
                    \o [i \in DOMAIN found |-> read_text(fs, found[i])])
       ELSE join(<<"\n", "\n">>,
                 file_part(fs, index_file)
                 \o (IF artifacts_dir \o <<"letters">> \in ds
                     THEN <<load_directory(fs, ds, artifacts_dir \o <<"letters">>)>>
                     ELSE <<>>))

\* ReferenceLoader._load_craft (the scene checklist is not among the files of
\* the model)
load_craft(fs, ds) ==
    LET craft_dir == reference_dir \o <<"craft">>
    IN join(<<"\n", "\n">>,
            file_part(fs, Path(craft_dir, Chars("STYLE_CHARTER.md")))
            \o titled_directory_part(fs, ds, craft_dir \o <<"vocabulary">>,
                                     <<"V","o","c","a","b","u","l","a","r","y">>))

\* one section before truncation: the header and the text when the class is
\* included and its text is not empty
section(included, header, text) ==
    IF included /\ text # <<>> THEN header \o text ELSE <<>>

truncate_context_before_craft(canon_text, context_text, artifacts_text, craft_text, max_tokens) ==
    LET canon_tokens == estimate_tokens(canon_text)
        canon_fits == canon_tokens <= max_tokens
        r1 == IF canon_fits THEN max_tokens - canon_tokens ELSE 0
        context_tokens == estimate_tokens(context_text)
        context_fits == r1 > 0 /\ context_tokens <= r1
        r2 == IF context_fits THEN r1 - context_tokens ELSE 0
        craft_tokens == estimate_tokens(craft_text)
        craft_fits == r2 > 0 /\ craft_tokens <= r2
        r3 == IF craft_fits THEN r2 - craft_tokens ELSE 0
    IN [canon |-> IF canon_fits THEN canon_text ELSE slice(canon_text, max_tokens * 4),
        context |-> IF r1 > 0
                    THEN (IF context_fits THEN context_text ELSE slice(context_text, r1 * 4))
                    ELSE <<>>,
        craft |-> IF r2 > 0
                  THEN (IF craft_fits THEN craft_text ELSE slice(craft_text, r2 * 4))
                  ELSE <<>>,
        artifacts |-> IF r3 > 0 THEN slice(artifacts_text, r3 * 4) ELSE <<>>]

\* the truncation of load_for_context, taken when total_tokens > max_tokens:
\* canon, then craft, then context, then artifacts
truncate(canon_text, context_text, artifacts_text, craft_text, max_tokens) ==
    LET canon_tokens == estimate_tokens(canon_text)
        canon_fits == canon_tokens <= max_tokens
        r1 == IF canon_fits THEN max_tokens - canon_tokens ELSE 0
        craft_tokens == estimate_tokens(craft_text)
        craft_fits == r1 > 0 /\ craft_tokens <= r1
        r2 == IF craft_fits THEN r1 - craft_tokens ELSE 0
        context_tokens == estimate_tokens(context_text)
        context_fits == r2 > 0 /\ context_tokens <= r2
        r3 == IF context_fits THEN r2 - context_tokens ELSE 0
    IN [canon |-> IF canon_fits THEN canon_text ELSE slice(canon_text, max_tokens * 4),
        craft |-> IF r1 > 0
                  THEN (IF craft_fits THEN craft_text ELSE slice(craft_text, r1 * 4))
                  ELSE <<>>,
        context |-> IF r2 > 0
                    THEN (IF context_fits THEN context_text ELSE slice(context_text, r2 * 4))
                    ELSE <<>>,
        artifacts |-> IF r3 > 0 THEN slice(artifacts_text, r3 * 4) ELSE <<>>]

\* ReferenceLoader.load_for_context
load_for_context(fs, ds, context, artifact_ids, max_tokens) ==
    LET rules == CONTEXT_RULES[context]
        canon_text == section(rules.canon, CLASS_HEADERS.canon, load_canon(fs, ds))
        context_text == section(rules.context, CLASS_HEADERS.context, load_context(fs, ds))
        artifacts_text == section(rules.artifact, CLASS_HEADERS.artifact,
                                  load_artifacts(fs, ds, artifact_ids))
        craft_text == section(rules.craft, CLASS_HEADERS.craft, load_craft(fs, ds))
        sources == (IF canon_text # <<>> THEN <<"canon">> ELSE <<>>)
                   \o (IF context_text # <<>> THEN <<"context">> ELSE <<>>)
                   \o (IF artifacts_text # <<>> THEN <<"artifacts">> ELSE <<>>)
                   \o (IF craft_text # <<>> THEN <<"craft">> ELSE <<>>)
        total_tokens == estimate_tokens(canon_text) + estimate_tokens(context_text)
                        + estimate_tokens(artifacts_text) + estimate_tokens(craft_text)
    IN IF total_tokens > max_tokens
       THEN LET t == truncate(canon_text, context_text, artifacts_text,
                              craft_text, max_tokens)
            IN [canon |-> t.canon, context |-> t.context,
                artifacts |-> t.artifacts, craft |-> t.craft,
                total_tokens |-> max_tokens, sources_loaded |-> sources]
       ELSE [canon |-> canon_text, context |-> context_text,
             artifacts |-> artifacts_text, craft |-> craft_text,
             total_tokens |-> total_tokens, sources_loaded |-> sources]

(***************************************************************************)
(* The reference tree the author keeps, and the loader's inputs            *)
(***************************************************************************)
ReferenceFiles ==
    {<<Path(<<"reference", "canon">>, Chars("MASTER_CANON.md")), "Tommy is 19.">>,
     <<Path(<<"reference", "canon", "characters">>, Chars("tommy.md")), "Tommy: acrobat.">>,
     <<Path(<<"reference", "context">>, Chars("HISTORICAL_CONTEXT.md")), "radio was common">>,
     <<Path(<<"reference", "context", "circus_life">>, Chars("tents.md")), "Canvas tents.">>,
     <<Path(<<"reference", "artifacts">>, Chars("ARTIFACT_INDEX.md")), "Index of letters.">>,
     <<Path(<<"reference", "artifacts", "letters">>, Chars("letter1.md")), "Dear Ma, the show moved on.">>,
     <<Path(<<"reference", "craft">>, Chars("STYLE_CHARTER.md")), "Short sentences.">>,
     <<Path(<<"reference", "craft", "vocabulary">>, Chars("slang.md")), "swell">>}

\* directories that may exist without a file in them
EmptyDirectories == {<<"reference", "canon", "characters">>, <<"reference", "artifacts">>}

\* the file system holding the files fset (pairs of path and content)
file_system(fset) == [p \in {f[1] : f \in fset} |-> TextFile((CHOOSE f \in fset : f[1] = p)[2])]
directories_of(fset) == UNION {ancestors(f[1].dir) : f \in fset}

\* token budgets: nothing, less than a header, between the section sizes, the default
TokenBudgets == {0, 20, 50, 60, 100, 115, 160, 50000}
ArtifactIds == {None, <<"letter1">>}

NoLoadCall == [op |-> "none", context |-> "", artifact_ids |-> None, max_tokens |-> 0]
NoBundle == [canon |-> <<>>, context |-> <<>>, artifacts |-> <<>>, craft |-> <<>>,
             total_tokens |-> 0, sources_loaded |-> <<>>]


(***************************************************************************)
(* ResearchDigestor                                                        *)
(***************************************************************************)
ResearchStatus == {"unprocessed", "classified", "distilled", "promoted", "rejected"}

\* ResearchDigestor.paths
digestor_paths ==
    [raw |-> <<"research", "raw_sources">>,
     digests |-> <<"research", "digests">>,
     artifacts |-> <<"research", "artifacts">>,
     craft |-> <<"research", "craft">>,
     rejected |-> <<"research", "rejected">>,
     reference |-> <<"reference">>]

\* the files the curator hands to ingest: name, content, and whether the file
\* is there
SourceFiles ==
    {[name |-> "notes.md", content |-> "radio was common", exists |-> TRUE],
     [name |-> "gone.md", content |-> "", exists |-> FALSE]}

\* ResearchDigestor._generate_id: hashlib.md5(content).hexdigest()[:12] of the
\* contents of the model
digestor_generate_id(source) ==
    CASE source.content = "radio was common" -> "26b1720ad323"
      [] source.content = "Canvas tents." -> "3b5174b8cb08"

DocIds == {"26b1720ad323", "3b5174b8cb08"}

\* the record ingest creates (notes and extracted_facts, which no operation
\* of the model reads, are left out; final_path is None until promote sets it)
new_record(doc_id, source, dest, intent, now) ==
    [id |-> doc_id, original_name |-> Chars(source.name), stored_path |-> dest,
     title |-> stem(Chars(source.name)), intent |-> intent,
     status |-> "unprocessed", research_class |-> None,
     ingested |-> now, classified |-> None, distilled |-> None,
     promoted |-> None, rejected |-> None, digest |-> None,
     final_path |-> None]

\* documents[doc_id] = record
put(md, doc_id, record) ==
    [d \in DOMAIN md \cup {doc_id} |-> IF d = doc_id THEN record ELSE md[d]]

\* the file system with path p holding content
write_file(fs, p, content) ==
    [q \in DOMAIN fs \cup {p} |-> IF q = p THEN content ELSE fs[q]]

\* the file system without path p
remove_file(fs, p) == [q \in DOMAIN fs \ {p} |-> fs[q]]

\* ResearchDigestor.ingest
digestor_ingest(md, fs, now, source, intent) ==
    IF ~source.exists
    THEN [raised |-> TRUE, error |-> "FileNotFoundError", metadata |-> md, files |-> fs]
    ELSE LET doc_id == digestor_generate_id(source)
             dest == Path(digestor_paths.raw,
                          Chars(doc_id) \o <<"_">> \o Chars(source.name))
         IN [raised |-> FALSE, error |-> "",
             metadata |-> put(md, doc_id, new_record(doc_id, source, dest, intent, now)),
             files |-> write_file(fs, dest, TextFile(source.content))]

\* ResearchDigestor.classify
digestor_classify(md, fs, now, doc_id, research_class) ==
    IF doc_id \notin DOMAIN md
    THEN [raised |-> TRUE, error |-> "KeyError", metadata |-> md, files |-> fs]
    ELSE [raised |-> FALSE, error |-> "",
          metadata |-> put(md, doc_id,
                           [md[doc_id] EXCEPT !.research_class = Some(research_class),
                                              !.status = "classified",
                                              !.classified = Some(now)]),
          files |-> fs]

\* what model_router.generate does: return a response, or raise
Responses ==
    {"{\"facts\":[],\"period_details\":[\"radio was common\"]}",
     "Here: {\"facts\":[]} done", "no facts found", "{oops}", "{}"}
CollaboratorOutcomes ==
    {[raises |-> FALSE, response |-> r, message |-> ""] : r \in Responses}
    \cup {[raises |-> TRUE, response |-> "", message |-> "timeout"]}

\* re.search(r'\{[\s\S]*\}', response).group(), or None: from the first "{"
\* to the last "}"
json_match(response) ==
    LET opens == {i \in DOMAIN response : response[i] = "{"}
        closes == {i \in DOMAIN response : response[i] = "}"}
    IN IF opens = {} \/ closes = {} THEN None
       ELSE LET first == CHOOSE i \in opens : \A k \in opens : i <= k
                last == CHOOSE j \in closes : \A k \in closes : k <= j
            IN IF first < last THEN Some(SubSeq(response, first, last)) ELSE None

\* json.loads on the texts of the model: the object, or a JSONDecodeError
json_loads(text) ==
    IF text = Chars("{\"facts\":[],\"period_details\":[\"radio was common\"]}")
    THEN [error |-> FALSE,
          value |-> <<[key |-> "facts", val |-> <<>>],
                      [key |-> "period_details", val |-> <<"radio was common">>]>>]
    ELSE IF text = Chars("{\"facts\":[]}")
    THEN [error |-> FALSE, value |-> <<[key |-> "facts", val |-> <<>>]>>]
    ELSE IF text = Chars("{}")
    THEN [error |-> FALSE, value |-> <<>>]
    ELSE [error |-> TRUE, value |-> <<>>]

make_digest_drops_unparsed(outcome) ==
    IF outcome.raises THEN <<>>
    ELSE LET m == json_match(Chars(outcome.response))
         IN IF m = None THEN <<>>
            ELSE IF json_loads(m[1]).error THEN <<>>
            ELSE json_loads(m[1]).value

\* the digest distill builds from the collaborator's outcome
make_digest(outcome) ==
    IF outcome.raises THEN <<[key |-> "error", val |-> outcome.message]>>
    ELSE LET m == json_match(Chars(outcome.response))
         IN IF m = None THEN <<[key |-> "raw_response", val |-> outcome.response]>>
            ELSE IF json_loads(m[1]).error
            THEN <<[key |-> "raw_response", val |-> outcome.response]>>
            ELSE json_loads(m[1]).value

\* the digest file distill writes
DigestFile(doc_id, title, digest) == <<"json", doc_id, title, digest>>

\* ResearchDigestor.distill (the stored file is a .md or .txt text file and
\* is read before the collaborator is called)
digestor_distill(md, fs, now, doc_id, outcome) ==
    IF doc_id \notin DOMAIN md
    THEN [raised |-> TRUE, error |-> "KeyError", metadata |-> md, files |-> fs]
    ELSE IF md[doc_id].stored_path \notin DOMAIN fs
    THEN [raised |-> TRUE, error |-> "FileNotFoundError", metadata |-> md, files |-> fs]
    ELSE LET digest == make_digest(outcome)
             digest_path == Path(digestor_paths.digests,
                                 Chars(doc_id) \o Chars("_digest.json"))
         IN [raised |-> FALSE, error |-> "",
             metadata |-> put(md, doc_id,
                              [md[doc_id] EXCEPT !.digest = Some(digest),
                                                 !.status = "distilled",
                                                 !.distilled = Some(now)]),
             files |-> write_file(fs, digest_path,
                                  DigestFile(doc_id, md[doc_id].title, digest))]

\* the directory promote copies into
promote_dest_dir(target) ==
    CASE target = CANON -> digestor_paths.reference
      [] target = CONTEXT -> digestor_paths.digests
      [] target = ARTIFACT -> digestor_paths.artifacts
      [] target = CRAFT -> digestor_paths.craft
      [] OTHER -> digestor_paths.rejected

\* ResearchDigestor.promote
digestor_promote(md, fs, now, doc_id, target) ==
    IF doc_id \notin DOMAIN md
    THEN [raised |-> TRUE, error |-> "KeyError", metadata |-> md, files |-> fs]
    ELSE LET source_path == md[doc_id].stored_path
             dest_path == Path(promote_dest_dir(target), source_path.name)
         IN IF source_path \notin DOMAIN fs
            THEN [raised |-> TRUE, error |-> "FileNotFoundError",
                  metadata |-> md, files |-> fs]
            ELSE [raised |-> FALSE, error |-> "",
                  metadata |-> put(md, doc_id,
                                   [md[doc_id] EXCEPT !.research_class = Some(target),
                                                      !.status = "promoted",
                                                      !.promoted = Some(now),
                                                      !.final_path = Some(dest_path)]),
                  files |-> write_file(fs, dest_path, fs[source_path])]

\* ResearchDigestor.reject
digestor_reject(md, fs, now, doc_id) ==
    IF doc_id \notin DOMAIN md
    THEN [raised |-> TRUE, error |-> "KeyError", metadata |-> md, files |-> fs]
    ELSE LET source_path == md[doc_id].stored_path
             dest_path == Path(digestor_paths.rejected, source_path.name)
         IN IF source_path \notin DOMAIN fs
            THEN [raised |-> TRUE, error |-> "FileNotFoundError",
                  metadata |-> md, files |-> fs]
            ELSE [raised |-> FALSE, error |-> "",
                  metadata |-> put(md, doc_id,
                                   [md[doc_id] EXCEPT !.status = "rejected",
                                                      !.rejected = Some(now),
                                                      !.stored_path = dest_path]),
                  files |-> write_file(remove_file(fs, source_path), dest_path,
                                       fs[source_path])]

NoDigestCall == [op |-> "none", doc_id |-> "", raised |-> FALSE, error |-> "",
                 outcome |-> "", target |-> ""]

(***************************************************************************)
(* ResearchIngestService                                                   *)
(***************************************************************************)
\* ResearchIngestService.CLASS_PATHS
CLASS_PATHS ==
    [canon |-> <<"reference">>,
     context |-> <<"research", "context">>,
     artifact |-> <<"research", "artifacts">>,
     craft |-> <<"research", "craft">>]

intake_dir == <<"research", "intake">>
rejected_dir == <<"research", "rejected">>

\* the directories _ensure_directories creates
ensured_directories ==
    {intake_dir, rejected_dir, <<"research", "context">>,
     <<"research", "artifacts">>, <<"research", "craft">>,
     <<"research", "canon_staging">>, <<"reference">>,
     <<"reference", "characters">>, <<"reference", "locations">>}

\* the files handed to ResearchIngestService.ingest: two names with the same
\* content, one name with two contents, and a file that is not there
IngestSources ==
    {[name |-> "notes.md", content |-> "radio was common", exists |-> TRUE],
     [name |-> "copy.md", content |-> "radio was common", exists |-> TRUE],
     [name |-> "notes.md", content |-> "Canvas tents.", exists |-> TRUE],
     [name |-> "gone.md", content |-> "", exists |-> FALSE]}

\* ResearchIngestService._compute_hash: hashlib.sha256(content).hexdigest()[:16]
\* of the contents of the model
compute_hash(source) ==
    CASE source.content = "radio was common" -> "8733b52a3533bf90"
      [] source.content = "Canvas tents." -> "d7e8a930f6a94fcc"

\* ResearchIngestService._generate_id
ingest_generate_id(filename, sec) ==
    LET \* str.isalnum for one character
        isalnum(c) ==
            \/ \E i \in DOMAIN Digits : Digits[i] = c
            \/ \E i \in DOMAIN UpperCase : UpperCase[i] = c
            \/ \E i \in DOMAIN LowerCase : LowerCase[i] = c
        \* datetime.now().strftime("%Y%m%d_%H%M%S") within one minute
        timestamp == Chars("20240101_12000") \o str(sec)
        head == slice(filename, 20)
        safe_name == [i \in DOMAIN head |-> IF isalnum(head[i]) THEN head[i] ELSE "_"]
    IN Chars("doc_") \o safe_name \o <<"_">> \o timestamp

\* the ResearchDocument ingest creates (notes, classification_confidence and
\* approved_by, which no operation of the model reads, are left out)
ResearchDocument(id, original_filename, file_hash, raw_path, now) ==
    [id |-> id, original_filename |-> original_filename,
     research_class |-> "unclassified", subtype |-> None,
     upload_date |-> now, file_hash |-> file_hash, status |-> "intake",
     raw_path |-> raw_path, digest_path |-> None, final_path |-> None,
     approved_date |-> None, promotion_target |-> None]

is_duplicate_ignores_status(reg, file_hash) ==
    \E k \in DOMAIN reg : reg[k].file_hash = file_hash

\* the duplicate check of ingest
is_duplicate(reg, file_hash) ==
    \E k \in DOMAIN reg : reg[k].file_hash = file_hash /\ reg[k].status # "rejected"

\* ResearchIngestService.ingest, called in the second sec
service_ingest(reg, fs, ds, now, sec, source) ==
    IF ~source.exists
    THEN [raised |-> TRUE, error |-> "FileNotFoundError",
          registry |-> reg, files |-> fs, dirs |-> ds, returned |-> None]
    ELSE IF is_duplicate(reg, compute_hash(source))
    THEN [raised |-> TRUE, error |-> "ValueError: Duplicate document",
          registry |-> reg, files |-> fs, dirs |-> ds, returned |-> None]
    ELSE LET doc_id == ingest_generate_id(Chars(source.name), sec)
             dest_path == Path(intake_dir, doc_id \o suffix(Chars(source.name)))
             doc == ResearchDocument(doc_id, Chars(source.name),
                                     compute_hash(source), dest_path, now)
         IN [raised |-> FALSE, error |-> "",
             registry |-> put(reg, doc_id, doc),
             files |-> write_file(fs, dest_path, TextFile(source.content)),
             dirs |-> ds, returned |-> Some(doc_id)]

\* ResearchIngestService.update_classification
update_classification(reg, fs, ds, doc_id, research_class, subtype) ==
    IF doc_id \notin DOMAIN reg
    THEN [raised |-> TRUE, error |-> "KeyError",
          registry |-> reg, files |-> fs, dirs |-> ds, returned |-> None]
    ELSE [raised |-> FALSE, error |-> "",
          registry |-> put(reg, doc_id,
                           [reg[doc_id] EXCEPT !.research_class = research_class,
                                               !.subtype = subtype,
                                               !.status = "classified"]),
          files |-> fs, dirs |-> ds, returned |-> None]

\* ResearchIngestService.record_digest
record_digest(reg, fs, ds, doc_id, digest_path) ==
    IF doc_id \notin DOMAIN reg
    THEN [raised |-> TRUE, error |-> "KeyError",
          registry |-> reg, files |-> fs, dirs |-> ds, returned |-> None]
    ELSE [raised |-> FALSE, error |-> "",
          registry |-> put(reg, doc_id,
                           [reg[doc_id] EXCEPT !.digest_path = Some(digest_path),
                                               !.status = "distilled"]),
          files |-> fs, dirs |-> ds, returned |-> None]

\* the directory approve_and_place puts the document in
approve_dest_dir(doc, promotion_target) ==
    IF doc.research_class = CANON
    THEN (IF promotion_target # None
          THEN <<"reference", promotion_target[1]>>
          ELSE <<"research", "canon_staging">>)
    ELSE (IF doc.subtype # None
          THEN CLASS_PATHS[doc.research_class] \o <<doc.subtype[1]>>
          ELSE CLASS_PATHS[doc.research_class])

\* ResearchIngestService.approve_and_place; returned is the final path, None
\* standing for the empty string
approve_and_place(reg, fs, ds, now, doc_id, promotion_target) ==
    IF doc_id \notin DOMAIN reg
    THEN [raised |-> TRUE, error |-> "KeyError",
          registry |-> reg, files |-> fs, dirs |-> ds, returned |-> None]
    ELSE IF reg[doc_id].status \notin {"classified", "distilled"}
    THEN [raised |-> TRUE, error |-> "ValueError: must be classified/distilled",
          registry |-> reg, files |-> fs, dirs |-> ds, returned |-> None]
    ELSE IF reg[doc_id].research_class \notin ResearchClass
    THEN [raised |-> TRUE, error |-> "ValueError: not a ResearchClass",
          registry |-> reg, files |-> fs, dirs |-> ds, returned |-> None]
    ELSE LET doc == reg[doc_id]
             dest_dir == approve_dest_dir(doc, promotion_target)
             has_digest == doc.digest_path # None /\ doc.digest_path[1] \in DOMAIN fs
             final_path == Path(dest_dir, doc.id \o Chars("_digest.md"))
             placed == IF has_digest
                       THEN [doc EXCEPT !.final_path = Some(final_path)]
                       ELSE doc
         IN [raised |-> FALSE, error |-> "",
             registry |-> put(reg, doc_id,
                              [placed EXCEPT !.status = "approved",
                                             !.approved_date = Some(now),
                                             !.promotion_target = promotion_target]),
             files |-> IF has_digest
                       THEN write_file(fs, final_path, fs[doc.digest_path[1]])
                       ELSE fs,
             dirs |-> ds \cup ancestors(dest_dir),
             returned |-> placed.final_path]

\* ResearchIngestService.reject
service_reject(reg, fs, ds, doc_id) ==
    IF doc_id \notin DOMAIN reg
    THEN [raised |-> TRUE, error |-> "KeyError",
          registry |-> reg, files |-> fs, dirs |-> ds, returned |-> None]
    ELSE LET doc == reg[doc_id]
             rejected_path == Path(rejected_dir, doc.raw_path.name)
             moved == doc.raw_path \in DOMAIN fs
         IN [raised |-> FALSE, error |-> "",
             registry |-> put(reg, doc_id,
                              [doc EXCEPT !.raw_path = IF moved THEN rejected_path ELSE @,
                                          !.status = "rejected"]),
             files |-> IF moved
                       THEN write_file(remove_file(fs, doc.raw_path), rejected_path,
                                       fs[doc.raw_path])
                       ELSE fs,
             dirs |-> ds, returned |-> None]

NoIngestCall == [op |-> "none", doc_id |-> <<>>, file_hash |-> "", raised |-> FALSE,
                 error |-> "", returned |-> None]

(***************************************************************************)
(* CanonManager: chapter states (src/governance/canon_manager.py)          *)
(***************************************************************************)
\* get_chapter_state: the recorded state, DRAFT for an unknown chapter
get_chapter_state(cs, chapter_name) ==
    IF chapter_name \in DOMAIN cs THEN cs[chapter_name].state ELSE DRAFT

\* Python's "not reason" for an Optional[str]
not_reason(reason) == reason = None \/ reason = Some("")

\* set_chapter_state(chapter_name, state, reason) at time now: the chapter
\* states and the changelog it leaves, and whether it raised ValueError
set_chapter_state(cs, log, now, chapter_name, state, reason) ==
    LET record == IF chapter_name \in DOMAIN cs THEN cs[chapter_name]
                  ELSE [name |-> chapter_name, state |-> DRAFT,
                        last_modified |-> now, lock_reason |-> None,
                        unlock_history |-> <<>>]
        old_state == record.state
        unlocking == /\ old_state \in {CANON_LOCKED, PUBLISHED}
                     /\ state \in {DRAFT, REVISED}
    IN  IF unlocking /\ not_reason(reason)
        THEN [raised |-> TRUE, chapter_states |-> cs, changelog |-> log]
        ELSE [raised |-> FALSE,
              chapter_states |->
                  [c \in DOMAIN cs \cup {chapter_name} |->
                      IF c = chapter_name
                      THEN [record EXCEPT
                              !.unlock_history =
                                  IF unlocking
                                  THEN Append(@, [from_state |-> old_state,
                                                  to_state |-> state,
                                                  reason |-> reason[1],
                                                  timestamp |-> now])
                                  ELSE @,
                              !.state = state, !.last_modified = now,
                              !.lock_reason =
                                  IF state \in {CANON_LOCKED, PUBLISHED}
                                  THEN reason ELSE @]
                      ELSE cs[c]],
              changelog |-> Append(log, changelog_entry(now,
                                "CHAPTER_STATE_CHANGE",
                                <<chapter_name, old_state, state, reason>>,
                                <<chapter_name>>))]

\* is_editable: DRAFT and REVISED chapters can be edited
is_editable(cs, chapter_name) ==
    get_chapter_state(cs, chapter_name) \in {DRAFT, REVISED}

NoChapterCall == [op |-> "none", chapter |-> "", state |-> "", reason |-> None,
                  before |-> "", raised |-> FALSE]

(***************************************************************************)
(* Settings (src/utils/settings.py)                                        *)
(*                                                                         *)
(* A configuration value is <<"dict", f>> for a mapping f from keys to     *)
(* values, <<"str", s>>, <<"bool", b>> or <<"int", n>>.                     *)
(***************************************************************************)
Dict(f) == <<"dict", f>>
isinstance_dict(value) == value[1] = "dict"

\* _default_config
default_config ==
    Dict([ai |-> Dict([provider |-> <<"str", "openai">>,
                       openai |-> Dict([model |-> <<"str", "gpt-4o">>,
                                        max_tokens |-> <<"int", 4000>>]),
                       claude |-> Dict([model |-> <<"str", "claude-sonnet-4-20250514">>,
                                        max_tokens |-> <<"int", 4000>>])]),
          storage |-> Dict([use_google_drive |-> <<"bool", TRUE>>,
                            local_chapters_path |-> <<"str", "chapters">>]),
          autosave |-> Dict([enabled |-> <<"bool", TRUE>>,
                             interval_seconds |-> <<"int", 60>>]),
          ui |-> Dict([theme |-> <<"str", "light">>,
                       word_count_enabled |-> <<"bool", TRUE>>,
                       show_status_bar |-> <<"bool", TRUE>>]),
          editor |-> Dict([font_family |-> <<"str", "Consolas">>,
                           font_size |-> <<"int", 12>>,
                           wrap_mode |-> <<"bool", TRUE>>])])

\* get(key_path, default), key_path already split at its dots
RECURSIVE settings_get(_, _, _)
settings_get(value, keys, default) ==
    IF keys = <<>> THEN value
    ELSE IF isinstance_dict(value)
         THEN IF keys[1] \in DOMAIN value[2]
              THEN settings_get(value[2][keys[1]], Tail(keys), default)
              ELSE default
         ELSE default

\* set(key_path, value), key_path already split at its dots: the configuration
\* it leaves, and whether it raised TypeError (a key path that runs through a
\* value that is not a mapping: item assignment on a str, bool or int)
RECURSIVE settings_set(_, _, _)
settings_set(cfg, keys, value) ==
    IF ~isinstance_dict(cfg) THEN [raised |-> TRUE, config |-> cfg]
    ELSE IF Len(keys) = 1
    THEN [raised |-> FALSE,
          config |-> Dict([k \in DOMAIN cfg[2] \cup {keys[1]} |->
                              IF k = keys[1] THEN value ELSE cfg[2][k]])]
    ELSE LET child == IF keys[1] \in DOMAIN cfg[2] THEN cfg[2][keys[1]]
                      ELSE Dict([k \in {} |-> 0])
             r == settings_set(child, Tail(keys), value)
         IN  [raised |-> r.raised,
              config |-> Dict([k \in DOMAIN cfg[2] \cup {keys[1]} |->
                                  IF k = keys[1] THEN r.config ELSE cfg[2][k]])]

get_ai_provider(cfg) == settings_get(cfg, <<"ai", "provider">>, <<"str", "openai">>)
get_theme(cfg) == settings_get(cfg, <<"ui", "theme">>, <<"str", "light">>)

\* set_ai_provider: set("ai.provider", provider) for openai and claude
set_ai_provider(cfg, provider) ==
    IF provider \in {"openai", "claude"}
    THEN settings_set(cfg, <<"ai", "provider">>, <<"str", provider>>) @@ [called |-> TRUE]
    ELSE [raised |-> FALSE, config |-> cfg, called |-> FALSE]

\* set_theme: set("ui.theme", theme) for light and dark
set_theme(cfg, theme) ==
    IF theme \in {"light", "dark"}
    THEN settings_set(cfg, <<"ui", "theme">>, <<"str", theme>>) @@ [called |-> TRUE]
    ELSE [raised |-> FALSE, config |-> cfg, called |-> FALSE]

NoSettingsCall == [op |-> "none", keys |-> <<>>, value |-> <<"str", "">>,
                   raised |-> FALSE]

(***************************************************************************)
(* RegressionChecker (src/governance/regression_checker.py)                *)
(*                                                                         *)
(* A chapter is [name, content], content a sequence of characters.  A      *)
(* regular expression is a sequence of items: a word boundary, a greedy    *)
(* repetition of a character class (hi = -1: unbounded), or ordered        *)
(* alternatives of literals (optional when lo = 0).  re.IGNORECASE is      *)
(* matching the lowered text against lower-case patterns.  The message     *)
(* field of an issue, a fixed sentence around its other fields, is left    *)
(* out.                                                                    *)
(***************************************************************************)
Boundary == [kind |-> "b", chars |-> {}, lo |-> 0, hi |-> 0, alts |-> <<>>]
Repeat(chars, lo, hi) ==
    [kind |-> "set", chars |-> chars, lo |-> lo, hi |-> hi, alts |-> <<>>]
Literals(alts, lo) ==
    [kind |-> "alt", chars |-> {}, lo |-> lo, hi |-> 1,
     alts |-> [i \in DOMAIN alts |-> Chars(alts[i])]]

DigitChars == {Digits[i] : i \in DOMAIN Digits}
SpaceChars == {" ", "\t", "\n", "\r"}
WordChars == {LowerCase[i] : i \in DOMAIN LowerCase}
             \cup {UpperCase[i] : i \in DOMAIN UpperCase}
             \cup DigitChars \cup {"_"}

\* re.match of items[k..] at position i of text, in the regex engine's
\* order of preference: the position after the match, or 0 for no match
RECURSIVE re_match(_, _, _, _)
re_match(items, k, text, i) ==
    IF k > Len(items) THEN i
    ELSE LET it == items[k]
             is_word(j) == j \in DOMAIN text /\ text[j] \in WordChars
             run == CHOOSE n \in 0..(Len(text) - i + 1) :
                       /\ \A m \in 0..(n - 1) : text[i + m] \in it.chars
                       /\ \/ n = Len(text) - i + 1
                          \/ text[i + n] \notin it.chars
             most == IF it.hi >= 0 /\ run > it.hi THEN it.hi ELSE run
             fits == SelectSeq([j \in DOMAIN it.alts |-> j],
                         LAMBDA j :
                            /\ i + Len(it.alts[j]) - 1 <= Len(text)
                            /\ SubSeq(text, i, i + Len(it.alts[j]) - 1) = it.alts[j])
             next == CASE it.kind = "b" ->
                            IF is_word(i - 1) # is_word(i) THEN <<i>> ELSE <<>>
                       [] it.kind = "set" ->
                            [j \in 1..(most - it.lo + 1) |-> i + most - j + 1]
                       [] OTHER ->
                            [j \in DOMAIN fits |-> i + Len(it.alts[fits[j]])]
                            \o (IF it.lo = 0 THEN <<i>> ELSE <<>>)
             ends == [j \in DOMAIN next |-> re_match(items, k + 1, text, next[j])]
             found == {j \in DOMAIN ends : ends[j] # 0}
         IN  IF found = {} THEN 0
             ELSE ends[CHOOSE j \in found : \A m \in found : j <= m]

\* re.finditer from position pos on: the matches [start, end), left to right
RECURSIVE finditer(_, _, _)
finditer(items, text, pos) ==
    IF pos > Len(text) + 1 THEN <<>>
    ELSE LET e == re_match(items, 1, text, pos)
         IN  IF e = 0 THEN finditer(items, text, pos + 1)
             ELSE <<[start |-> pos, end |-> e]>>
                  \o finditer(items, text, IF e > pos THEN e ELSE pos + 1)

\* the concatenation of a sequence of lists: the appends of a nested loop
RECURSIVE flatten(_)
flatten(lists) ==
    IF Len(lists) = 0 THEN <<>> ELSE lists[1] \o flatten(Tail(lists))

\* str.strip()
strip(cs) ==
    LET keep == {i \in DOMAIN cs : cs[i] \notin SpaceChars}
    IN  IF keep = {} THEN <<>>
        ELSE SubSeq(cs, CHOOSE i \in keep : \A j \in keep : i <= j,
                        CHOOSE i \in keep : \A j \in keep : i >= j)

\* CanonManager.get_all_facts(category): the category's dict
get_all_facts(cn, category) ==
    IF category \in DOMAIN cn.data THEN cn.data[category] ELSE <<>>

\* _find_in_text for a pattern of letters and spaces, already lower-case
find_in_text(text, pattern) ==
    LET lines == split(text, "\n")
        nums == SelectSeq([i \in DOMAIN lines |-> i],
                          LAMBDA i : contains(lower(lines[i]), pattern))
    IN  [n \in DOMAIN nums |->
            [line |-> nums[n], text |-> strip(lines[nums[n]])]]

age_patterns ==
    << <<Boundary, Repeat(DigitChars, 1, 2), Repeat(SpaceChars, 0, -1),
         Literals(<<"year">>, 1), Literals(<<"s">>, 0),
         Repeat(SpaceChars, 0, -1), Literals(<<"old">>, 1), Boundary>>,
       <<Boundary, Literals(<<"age">>, 1), Repeat({"d"}, 0, 1),
         Repeat(SpaceChars, 0, -1), Repeat(DigitChars, 1, 2), Boundary>>,
       <<Boundary, Repeat(DigitChars, 1, 2), Literals(<<"-year-old">>, 1),
         Boundary>> >>

\* check_character_ages
check_character_ages(cn, chs) ==
    LET character_facts == get_all_facts(cn, "characters")
        of_match(chapter, m) ==
            LET content == chapter.content
                \* group(1) is the digits of the match
                age == int(SelectSeq(SubSeq(content, m.start, m.end - 1),
                                     LAMBDA c : c \in DigitChars))
                context_start == IF m.start - 1 - 50 > 0 THEN m.start - 1 - 50 ELSE 0
                context_end == IF m.end - 1 + 50 < Len(content)
                               THEN m.end - 1 + 50 ELSE Len(content)
                context == SubSeq(content, context_start + 1, context_end)
            IN  flatten([f \in DOMAIN character_facts |->
                    LET char_key == character_facts[f].key
                        canon_age == Chars(character_facts[f].val.value)
                    IN  IF /\ contains(lower(Chars(char_key)), <<"a", "g", "e">>)
                           /\ canon_age # <<>>
                           /\ \A i \in DOMAIN canon_age : canon_age[i] \in DigitChars
                           /\ int(canon_age) # age
                           /\ contains(lower(context),
                                       lower(split(Chars(char_key), "_")[1]))
                        THEN <<[type |-> "age_inconsistency",
                                chapter |-> chapter.name, found_age |-> age,
                                canon_age |-> int(canon_age),
                                character |-> char_key,
                                context |-> strip(context),
                                severity |-> "high"]>>
                        ELSE <<>>])
        of_pattern(chapter, pattern) ==
            LET matches == finditer(pattern, lower(chapter.content), 1)
            IN  flatten([n \in DOMAIN matches |-> of_match(chapter, matches[n])])
    IN  flatten([c \in DOMAIN chs |->
            flatten([p \in DOMAIN age_patterns |->
                        of_pattern(chs[c], age_patterns[p])])])

\* the (chapter, fact) pairs of "for chapter: for fact:" whose fact name
\* (key with underscores as spaces, lower-cased) is in the lowered content
name_hits(chs, facts) ==
    LET n == Len(facts)
        visits == [k \in 1..(Len(chs) * n) |->
                      [chapter |-> ((k - 1) \div n) + 1,
                       name |-> lower(replace(Chars(facts[((k - 1) % n) + 1].key),
                                              "_", " "))]]
    IN  SelectSeq(visits,
                  LAMBDA v : contains(lower(chs[v.chapter].content), v.name))

\* the hits that put a new key into the dict of names, in insertion order
first_hits(hits) ==
    SelectSeq([h \in DOMAIN hits |-> h],
              LAMBDA h : \A g \in 1..(h - 1) : hits[g].name # hits[h].name)

\* check_locations
check_locations(cn, chs) ==
    LET hits == name_hits(chs, get_all_facts(cn, "locations"))
        firsts == first_hits(hits)
        mentions(loc_name) ==
            flatten([h \in DOMAIN hits |->
                IF hits[h].name # loc_name THEN <<>>
                ELSE LET chapter == chs[hits[h].chapter]
                         matches == find_in_text(chapter.content, loc_name)
                     IN  [m \in DOMAIN matches |->
                             [chapter |-> chapter.name,
                              line |-> matches[m].line,
                              text |-> matches[m].text]]])
    IN  flatten([j \in DOMAIN firsts |->
            LET loc_name == hits[firsts[j]].name
            IN  IF Len(mentions(loc_name)) > 1
                THEN <<[type |-> "location_review_needed",
                        location |-> loc_name,
                        mentions |-> mentions(loc_name),
                        severity |-> "info"]>>
                ELSE <<>>])

Months == <<"january", "february", "march", "april", "may", "june", "july",
            "august", "september", "october", "november", "december">>
Weekdays == <<"monday", "tuesday", "wednesday", "thursday", "friday",
              "saturday", "sunday">>

date_patterns ==
    << <<Boundary, Literals(Months, 1), Repeat(SpaceChars, 1, -1),
         Repeat(DigitChars, 1, 2), Literals(<<"st", "nd", "rd", "th">>, 0),
         Repeat({","}, 0, 1), Repeat(SpaceChars, 0, -1),
         Repeat(DigitChars, 4, 4), Boundary>>,
       <<Boundary, Literals(Months, 1), Repeat(SpaceChars, 1, -1),
         Repeat(DigitChars, 4, 4), Boundary>>,
       <<Boundary, Literals(Weekdays, 1), Boundary>>,
       <<Boundary, Repeat(DigitChars, 1, 2), Repeat({"/"}, 1, 1),
         Repeat(DigitChars, 1, 2), Repeat({"/"}, 1, 1),
         Repeat(DigitChars, 2, 4), Boundary>> >>

\* check_timeline
check_timeline(cn, chs) ==
    LET timeline_facts == get_all_facts(cn, "timeline")
        of_pattern(chapter, pattern) ==
            LET content == chapter.content
                matches == finditer(pattern, lower(content), 1)
            IN  [n \in DOMAIN matches |->
                    [chapter |-> chapter.name,
                     date_text |-> SubSeq(content, matches[n].start,
                                          matches[n].end - 1),
                     line |-> Len(SelectSeq(SubSeq(content, 1, matches[n].start - 1),
                                            LAMBDA c : c = "\n")) + 1,
                     position |-> matches[n].start - 1]]
        date_mentions ==
            flatten([c \in DOMAIN chs |->
                flatten([p \in DOMAIN date_patterns |->
                            of_pattern(chs[c], date_patterns[p])])])
    IN  flatten([m \in DOMAIN date_mentions |->
            flatten([f \in DOMAIN timeline_facts |->
                IF contains(lower(Chars(timeline_facts[f].val.value)),
                            lower(date_mentions[m].date_text))
                THEN <<[type |-> "timeline_reference",
                        chapter |-> date_mentions[m].chapter,
                        date_found |-> date_mentions[m].date_text,
                        canon_event |-> timeline_facts[f].key,
                        severity |-> "info"]>>
                ELSE <<>>])])

\* check_object_continuity
check_object_continuity(cn, chs) ==
    LET hits == name_hits(chs, get_all_facts(cn, "objects"))
        firsts == first_hits(hits)
    IN  [j \in DOMAIN firsts |->
            [type |-> "object_tracking", object |-> hits[firsts[j]].name,
             first_appearance |-> chs[hits[firsts[j]].chapter].name,
             severity |-> "info"]]

AttributionWords == <<"said", "asked", "replied", "answered", "whispered",
                      "shouted", "muttered", "called", "yelled", "told", "spoke">>

\* the loop of check_dialogue_attribution over the lines of one chapter, from
\* line line_num on with the counter at consecutive_unattributed
RECURSIVE dialogue_issues(_, _, _, _)
dialogue_issues(chapter_name, lines, line_num, consecutive_unattributed) ==
    IF line_num > Len(lines) THEN <<>>
    ELSE LET line == lines[line_num]
             \* re.search of "[^"]+"|"[^"]+ : a quote, then another character
             has_dialogue == \E i \in 1..(Len(line) - 1) :
                                line[i] = "\"" /\ line[i + 1] # "\""
             has_attribution ==
                 \E w \in DOMAIN AttributionWords :
                     contains(lower(line), Chars(AttributionWords[w]))
         IN  IF has_dialogue /\ ~has_attribution
             THEN dialogue_issues(chapter_name, lines, line_num + 1,
                                  consecutive_unattributed + 1)
             ELSE (IF consecutive_unattributed >= 5
                   THEN <<[type |-> "unattributed_dialogue",
                           chapter |-> chapter_name,
                           line |-> line_num - consecutive_unattributed,
                           count |-> consecutive_unattributed,
                           severity |-> "warning"]>>
                   ELSE <<>>)
                  \o dialogue_issues(chapter_name, lines, line_num + 1, 0)

\* check_dialogue_attribution
check_dialogue_attribution(chs) ==
    flatten([c \in DOMAIN chs |->
                dialogue_issues(chs[c].name, split(chs[c].content, "\n"), 1, 0)])

\* a summary whose total leaves out the last check
summary_of_skips_last(checks) ==
    [character_ages |-> Len(checks.character_ages),
     locations |-> Len(checks.locations),
     timeline |-> Len(checks.timeline),
     object_continuity |-> Len(checks.object_continuity),
     dialogue_attribution |-> Len(checks.dialogue_attribution),
     total |-> Len(checks.character_ages) + Len(checks.locations)
                            + Len(checks.timeline)
                            + Len(checks.object_continuity)]

\* the summary run_all_checks generates: the count of every check, and their sum
summary_of(checks) ==
    [character_ages |-> Len(checks.character_ages),
     locations |-> Len(checks.locations),
     timeline |-> Len(checks.timeline),
     object_continuity |-> Len(checks.object_continuity),
     dialogue_attribution |-> Len(checks.dialogue_attribution),
     total |-> Len(checks.character_ages) + Len(checks.locations)
                            + Len(checks.timeline)
                            + Len(checks.object_continuity)
                            + Len(checks.dialogue_attribution)]

\* run_all_checks(chapters) at time now: the results dictionary (every check
\* runs once, and the summary is made of its list)
run_all_checks(cn, chs, now) ==
    CHOOSE results \in
        {[timestamp |-> now, chapters_checked |-> Len(chs),
          checks |-> checks, summary |-> summary_of(checks)] :
            checks \in
               {[character_ages |-> check_character_ages(cn, chs),
                 locations |-> check_locations(cn, chs),
                 timeline |-> check_timeline(cn, chs),
                 object_continuity |-> check_object_continuity(cn, chs),
                 dialogue_attribution |-> check_dialogue_attribution(chs)]}} :
        TRUE

NoReport == [op |-> "none"]

\* no call has been made yet
NoLockerCall == [op |-> "none", chapter |-> 0, new_state |-> "", reason |-> "",
                 before |-> "", raised |-> FALSE, error |-> ""]
NoCanonCall == [op |-> "none", category |-> "", fact_key |-> "", value |-> "",
                reason |-> "", raised |-> FALSE, issues |-> <<>>]

Init ==
    /\ locks = [c \in {} |-> 0]
    /\ unlock_log = <<>>
    /\ clock = 1
    /\ lockerCall = NoLockerCall
    /\ canon = create_default_canon(0)
    /\ changelog = <<>>
    /\ canonCall = NoCanonCall
    /\ files = file_system({})
    /\ dirs = {}
    /\ loadCall = NoLoadCall
    /\ bundle = NoBundle
    /\ metadata = [d \in {} |-> 0]
    /\ held = [d \in {} |-> {}]
    /\ digestCall = NoDigestCall
    /\ registry = [d \in {} |-> 0]
    /\ second = 0
    /\ ingestCall = NoIngestCall
    /\ chapter_states = [c \in {} |-> 0]
    /\ chapterCall = NoChapterCall
    /\ config = default_config
    /\ saved_config = default_config
    /\ settingsCall = NoSettingsCall
    /\ chapters = <<>>
    /\ report = NoReport

\* a call of set_state(chapter_num, new_state, reason, by)
SetState(chapter_num, new_state, reason, by) ==
    LET r == set_state(locks, clock, chapter_num, new_state, reason, by) IN
    /\ r.writes => clock <= MaxClock
    /\ locks' = r.locks
    /\ clock' = IF r.writes THEN clock + 1 ELSE clock
    /\ lockerCall' = [op |-> "set_state", chapter |-> chapter_num,
                      new_state |-> new_state, reason |-> reason,
                      before |-> get_state(locks, chapter_num).state,
                      raised |-> r.raised, error |-> r.error]
    /\ UNCHANGED unlock_log
    /\ UNCHANGED canonVars
    /\ UNCHANGED <<fsVars, loaderVars, digestorVars, ingestVars, chapterVars,
                 settingsVars, checkerVars>>

\* a call of unlock(chapter_num, reason, by)
Unlock(chapter_num, reason, by) ==
    LET current == get_state(locks, chapter_num)
        call == [op |-> "unlock", chapter |-> chapter_num,
                 new_state |-> REVISED, reason |-> reason,
                 before |-> current.state]
    IN
    /\ UNCHANGED canonVars
    /\ UNCHANGED <<fsVars, loaderVars, digestorVars, ingestVars, chapterVars,
                 settingsVars, checkerVars>>
    /\ IF current.state # CANON_LOCKED
       THEN /\ lockerCall' = call @@ [raised |-> TRUE, error |-> "not_locked"]
            /\ UNCHANGED <<locks, unlock_log, clock>>
       ELSE IF reason_rejected(reason)
       THEN /\ lockerCall' =
                   call @@ [raised |-> TRUE, error |-> "reason_too_short"]
            /\ UNCHANGED <<locks, unlock_log, clock>>
       ELSE \* the log entry is written, then set_state is called
            LET log_entry == [chapter |-> chapter_num, unlocked_at |-> clock,
                              unlocked_by |-> by, reason |-> reason,
                              previous_lock_date |-> current.locked_at]
                r == set_state(locks, clock, chapter_num, REVISED,
                               [prefix |-> "Unlocked: ", reason |-> reason],
                               by)
            IN /\ clock <= MaxClock
               /\ unlock_log' = Append(unlock_log, log_entry)
               /\ locks' = r.locks
               /\ clock' = clock + 1
               /\ lockerCall' =
                      call @@ [raised |-> r.raised, error |-> r.error]

NextLocker ==
    \/ \E c \in Chapters, s \in ChapterState, r \in LockReasons, by \in Users :
          SetState(c, s, r, by)
    \/ \E c \in Chapters, r \in UnlockReasons, by \in Users :
          Unlock(c, r, by)

SpecLocker == Init /\ [][NextLocker]_vars

(***************************************************************************)
(* CanonManager calls                                                      *)
(***************************************************************************)
\* a canon_version.json left by earlier sessions: tommy_age added, updated
\* nine times, then added again nine times
InitPersisted ==
    /\ locks = [c \in {} |-> 0]
    /\ unlock_log = <<>>
    /\ clock = 1
    /\ lockerCall = NoLockerCall
    /\ canon = [version |-> <<"1", ".", "9", ".", "9">>,
                last_update |-> 0,
                data |-> [create_default_canon(0).data EXCEPT
                            !["facts"] = <<[key |-> "tommy_age",
                                            val |-> [value |-> "19",
                                              source_chapter |-> "Chapter 1",
                                              created |-> 0, updated |-> 0,
                                              history |-> <<>>]]>>]]
    /\ changelog = <<>>
    /\ canonCall = NoCanonCall
    /\ files = file_system({})
    /\ dirs = {}
    /\ loadCall = NoLoadCall
    /\ bundle = NoBundle
    /\ metadata = [d \in {} |-> 0]
    /\ held = [d \in {} |-> {}]
    /\ digestCall = NoDigestCall
    /\ registry = [d \in {} |-> 0]
    /\ second = 0
    /\ ingestCall = NoIngestCall
    /\ chapter_states = [c \in {} |-> 0]
    /\ chapterCall = NoChapterCall
    /\ config = default_config
    /\ saved_config = default_config
    /\ settingsCall = NoSettingsCall
    /\ chapters = <<>>
    /\ report = NoReport

\* a call of add_fact(fact_key, fact_value, source_chapter, category)
AddFact(fact_key, fact_value, source_chapter, category) ==
    LET r == add_fact(canon, changelog, clock, fact_key, fact_value,
                      source_chapter, category) IN
    /\ clock <= MaxCanonOps
    /\ canon' = r.canon
    /\ changelog' = r.changelog
    /\ clock' = clock + 1
    /\ canonCall' = [op |-> "add_fact", category |-> category,
                     fact_key |-> fact_key, value |-> fact_value,
                     reason |-> "", raised |-> FALSE, issues |-> <<>>]
    /\ UNCHANGED lockerVars
    /\ UNCHANGED <<fsVars, loaderVars, digestorVars, ingestVars, chapterVars,
                 settingsVars, checkerVars>>

\* a call of update_fact(fact_key, new_value, reason, affected_chapters, category)
UpdateFact(fact_key, new_value, reason, affected_chapters, category) ==
    LET r == update_fact(canon, changelog, clock, fact_key, new_value, reason,
                         affected_chapters, category) IN
    /\ ~r.raised => clock <= MaxCanonOps
    /\ canon' = r.canon
    /\ changelog' = r.changelog
    /\ clock' = IF r.raised THEN clock ELSE clock + 1
    /\ canonCall' = [op |-> "update_fact", category |-> category,
                     fact_key |-> fact_key, value |-> new_value,
                     reason |-> reason, raised |-> r.raised, issues |-> <<>>]
    /\ UNCHANGED lockerVars
    /\ UNCHANGED <<fsVars, loaderVars, digestorVars, ingestVars, chapterVars,
                 settingsVars, checkerVars>>

\* a call of validate_against_canon(chapter_text)
ValidateAgainstCanon(chapter_text) ==
    /\ canonCall' = [op |-> "validate_against_canon", category |-> "",
                     fact_key |-> "", value |-> chapter_text,
                     reason |-> "", raised |-> FALSE,
                     issues |-> validate_against_canon(canon, chapter_text)]
    /\ UNCHANGED <<canon, changelog, clock>>
    /\ UNCHANGED lockerVars
    /\ UNCHANGED <<fsVars, loaderVars, digestorVars, ingestVars, chapterVars,
                 settingsVars, checkerVars>>

NextCanon ==
    \/ \E k \in FactKeys, v \in FactValues, ch \in SourceChapters,
          c \in CallCategories : AddFact(k, v, ch, c)
    \/ \E k \in FactKeys, v \in FactValues, r \in UpdateReasons,
          ch \in SourceChapters, c \in CallCategories :
          UpdateFact(k, v, r, <<ch>>, c)
    \/ \E t \in ChapterTexts : ValidateAgainstCanon(t)

SpecCanon == (Init \/ InitPersisted) /\ [][NextCanon]_vars

(***************************************************************************)
(* ReferenceLoader calls                                                   *)
(***************************************************************************)
\* any reference tree: some of the reference files, and some empty directories
InitLoader ==
    /\ locks = [c \in {} |-> 0]
    /\ unlock_log = <<>>
    /\ clock = 1
    /\ lockerCall = NoLockerCall
    /\ canon = create_default_canon(0)
    /\ changelog = <<>>
    /\ canonCall = NoCanonCall
    /\ \E fset \in SUBSET ReferenceFiles, empty \in SUBSET EmptyDirectories :
          /\ files = file_system(fset)
          /\ dirs = directories_of(fset) \cup UNION {ancestors(d) : d \in empty}
    /\ loadCall = NoLoadCall
    /\ bundle = NoBundle
    /\ metadata = [d \in {} |-> 0]
    /\ held = [d \in {} |-> {}]
    /\ digestCall = NoDigestCall
    /\ registry = [d \in {} |-> 0]
    /\ second = 0
    /\ ingestCall = NoIngestCall
    /\ chapter_states = [c \in {} |-> 0]
    /\ chapterCall = NoChapterCall
    /\ config = default_config
    /\ saved_config = default_config
    /\ settingsCall = NoSettingsCall
    /\ chapters = <<>>
    /\ report = NoReport

\* a call of load_for_context(context, artifact_ids=..., max_tokens=...)
LoadForContext(context, artifact_ids, max_tokens) ==
    /\ bundle' = load_for_context(files, dirs, context, artifact_ids, max_tokens)
    /\ loadCall' = [op |-> "load_for_context", context |-> context,
                    artifact_ids |-> artifact_ids, max_tokens |-> max_tokens]
    /\ UNCHANGED <<fsVars, clock, lockerVars, canonVars, digestorVars, ingestVars,
                 chapterVars, settingsVars, checkerVars>>

\* the loader keeps nothing between calls: one call on every tree covers them
NextLoader ==
    /\ loadCall = NoLoadCall
    /\ \E c \in LoadingContext, a \in ArtifactIds, m \in TokenBudgets :
          LoadForContext(c, a, m)

SpecLoader == InitLoader /\ [][NextLoader]_vars

(***************************************************************************)
(* ResearchDigestor calls                                                  *)
(***************************************************************************)
\* after ResearchDigestor.__init__ on a project that has a master canon file
\* and a style charter
DigestorTree ==
    {<<Path(<<"reference", "canon">>, Chars("MASTER_CANON.md")), "Tommy is 19.">>,
     <<Path(<<"reference", "craft">>, Chars("STYLE_CHARTER.md")), "Short sentences.">>}

InitDigestor ==
    /\ locks = [c \in {} |-> 0]
    /\ unlock_log = <<>>
    /\ clock = 1
    /\ lockerCall = NoLockerCall
    /\ canon = create_default_canon(0)
    /\ changelog = <<>>
    /\ canonCall = NoCanonCall
    /\ files = file_system(DigestorTree)
    /\ dirs = directories_of(DigestorTree)
              \cup UNION {ancestors(digestor_paths[k]) : k \in DOMAIN digestor_paths}
    /\ loadCall = NoLoadCall
    /\ bundle = NoBundle
    /\ metadata = [d \in {} |-> 0]
    /\ held = [d \in {} |-> {}]
    /\ digestCall = NoDigestCall
    /\ registry = [d \in {} |-> 0]
    /\ second = 0
    /\ ingestCall = NoIngestCall
    /\ chapter_states = [c \in {} |-> 0]
    /\ chapterCall = NoChapterCall
    /\ config = default_config
    /\ saved_config = default_config
    /\ settingsCall = NoSettingsCall
    /\ chapters = <<>>
    /\ report = NoReport

\* the state after a ResearchDigestor call with result r
DigestorReturns(r, call) ==
    /\ metadata' = r.metadata
    /\ files' = r.files
    /\ held' = [d \in DOMAIN r.metadata |->
                   (IF d \in DOMAIN held THEN held[d] ELSE {})
                   \cup {[status |-> r.metadata[d].status,
                          research_class |-> r.metadata[d].research_class]}]
    /\ clock' = IF r.raised THEN clock ELSE clock + 1
    /\ digestCall' = call @@ [raised |-> r.raised, error |-> r.error] @@ NoDigestCall
    /\ UNCHANGED <<dirs, loaderVars, lockerVars, canonVars, ingestVars, chapterVars,
                 settingsVars, checkerVars>>

DigestorIngest(source, intent) ==
    LET r == digestor_ingest(metadata, files, clock, source, intent)
    IN /\ r.raised \/ clock <= MaxResearchOps
       /\ DigestorReturns(r, [op |-> "ingest",
                              doc_id |-> IF source.exists
                                         THEN digestor_generate_id(source) ELSE ""])

DigestorClassify(doc_id, research_class) ==
    LET r == digestor_classify(metadata, files, clock, doc_id, research_class)
    IN /\ r.raised \/ clock <= MaxResearchOps
       /\ DigestorReturns(r, [op |-> "classify", doc_id |-> doc_id,
                              target |-> research_class])

DigestorDistill(doc_id, outcome) ==
    LET r == digestor_distill(metadata, files, clock, doc_id, outcome)
    IN /\ r.raised \/ clock <= MaxResearchOps
       /\ DigestorReturns(r, [op |-> "distill", doc_id |-> doc_id,
                              outcome |-> IF outcome.raises THEN "raises"
                                          ELSE outcome.response])

DigestorPromote(doc_id, target) ==
    LET r == digestor_promote(metadata, files, clock, doc_id, target)
    IN /\ r.raised \/ clock <= MaxResearchOps
       /\ DigestorReturns(r, [op |-> "promote", doc_id |-> doc_id,
                              target |-> target])

DigestorReject(doc_id) ==
    LET r == digestor_reject(metadata, files, clock, doc_id)
    IN /\ r.raised \/ clock <= MaxResearchOps
       /\ DigestorReturns(r, [op |-> "reject", doc_id |-> doc_id])

\* the classes the curator of the model assigns
CuratorClasses == {CANON, CONTEXT}

\* load_for_context as the drafting and style-check callers make it
LoadForTask(context) ==
    /\ bundle' = load_for_context(files, dirs, context, None, 50000)
    /\ loadCall' = [op |-> "load_for_context", context |-> context,
                    artifact_ids |-> None, max_tokens |-> 50000]
    /\ UNCHANGED <<fsVars, clock, lockerVars, canonVars, digestorVars, ingestVars,
                 chapterVars, settingsVars, checkerVars>>

NextDigestor ==
    \/ \E s \in SourceFiles : DigestorIngest(s, "historical_context")
    \/ \E d \in DocIds, c \in CuratorClasses : DigestorClassify(d, c)
    \/ \E d \in DocIds, o \in CollaboratorOutcomes : DigestorDistill(d, o)
    \/ \E d \in DocIds, c \in CuratorClasses : DigestorPromote(d, c)
    \/ \E d \in DocIds : DigestorReject(d)
    \/ \E c \in {"drafting", "style"} : LoadForTask(c)

SpecDigestor == InitDigestor /\ [][NextDigestor]_vars

(***************************************************************************)
(* ResearchIngestService calls                                             *)
(***************************************************************************)
\* the digest files a distillation step has written, and one it has not
DigestTree ==
    {<<Path(<<"research", "digests">>, Chars("notes_digest.md")), "radio was common">>}
DigestPaths ==
    {Path(<<"research", "digests">>, Chars("notes_digest.md")),
     Path(<<"research", "digests">>, Chars("lost_digest.md"))}

\* after ResearchIngestService.__init__ on a project without a registry file
InitIngest ==
    /\ locks = [c \in {} |-> 0]
    /\ unlock_log = <<>>
    /\ clock = 1
    /\ lockerCall = NoLockerCall
    /\ canon = create_default_canon(0)
    /\ changelog = <<>>
    /\ canonCall = NoCanonCall
    /\ files = file_system(DigestTree)
    /\ dirs = directories_of(DigestTree)
              \cup UNION {ancestors(d) : d \in ensured_directories}
    /\ loadCall = NoLoadCall
    /\ bundle = NoBundle
    /\ metadata = [d \in {} |-> 0]
    /\ held = [d \in {} |-> {}]
    /\ digestCall = NoDigestCall
    /\ registry = [d \in {} |-> 0]
    /\ second = 0
    /\ ingestCall = NoIngestCall
    /\ chapter_states = [c \in {} |-> 0]
    /\ chapterCall = NoChapterCall
    /\ config = default_config
    /\ saved_config = default_config
    /\ settingsCall = NoSettingsCall
    /\ chapters = <<>>
    /\ report = NoReport

\* the state after a ResearchIngestService call with result r
ServiceReturns(r, call) ==
    /\ registry' = r.registry
    /\ files' = r.files
    /\ dirs' = r.dirs
    /\ clock' = IF r.raised THEN clock ELSE clock + 1
    /\ ingestCall' = call @@ [raised |-> r.raised, error |-> r.error,
                              returned |-> r.returned] @@ NoIngestCall
    /\ UNCHANGED <<loaderVars, lockerVars, canonVars, digestorVars, chapterVars,
                 settingsVars, checkerVars>>

\* ingest(source), the wall clock showing the second sec
ServiceIngest(source, sec) ==
    LET r == service_ingest(registry, files, dirs, clock, sec, source)
    IN /\ r.raised \/ clock <= MaxIngestOps
       /\ second' = IF r.raised THEN second ELSE sec
       /\ ServiceReturns(r, [op |-> "ingest",
                             file_hash |-> IF source.exists
                                           THEN compute_hash(source) ELSE ""])

ServiceClassify(doc_id, research_class, subtype) ==
    LET r == update_classification(registry, files, dirs, doc_id, research_class, subtype)
    IN /\ r.raised \/ clock <= MaxIngestOps
       /\ UNCHANGED second
       /\ ServiceReturns(r, [op |-> "update_classification", doc_id |-> doc_id])

ServiceRecordDigest(doc_id, digest_path) ==
    LET r == record_digest(registry, files, dirs, doc_id, digest_path)
    IN /\ r.raised \/ clock <= MaxIngestOps
       /\ UNCHANGED second
       /\ ServiceReturns(r, [op |-> "record_digest", doc_id |-> doc_id])

ServiceApprove(doc_id, promotion_target) ==
    LET r == approve_and_place(registry, files, dirs, clock, doc_id, promotion_target)
    IN /\ r.raised \/ clock <= MaxIngestOps
       /\ UNCHANGED second
       /\ ServiceReturns(r, [op |-> "approve_and_place", doc_id |-> doc_id])

ServiceReject(doc_id) ==
    LET r == service_reject(registry, files, dirs, doc_id)
    IN /\ r.raised \/ clock <= MaxIngestOps
       /\ UNCHANGED second
       /\ ServiceReturns(r, [op |-> "reject", doc_id |-> doc_id])

\* the ids callers pass: those of the registry, and one it does not hold
KnownOrNot == DOMAIN registry \cup {Chars("doc_")}
\* class and subtype as the classifier reports them
Classifications == {<<CANON, None>>, <<CONTEXT, None>>, <<CONTEXT, Some("historical")>>}
PromotionTargets == {None, Some("characters")}

NextIngest ==
    \/ \E s \in IngestSources, sec \in {second, second + 1} : ServiceIngest(s, sec)
    \/ \E d \in KnownOrNot, c \in Classifications : ServiceClassify(d, c[1], c[2])
    \/ \E d \in KnownOrNot, p \in DigestPaths : ServiceRecordDigest(d, p)
    \/ \E d \in KnownOrNot, t \in PromotionTargets : ServiceApprove(d, t)
    \/ \E d \in KnownOrNot : ServiceReject(d)

SpecIngest == InitIngest /\ [][NextIngest]_vars

(***************************************************************************)
(* Properties of ChapterLocker (checked under SpecLocker)                  *)
(***************************************************************************)
\* the state a chapter counts as having: its record's, or DRAFT without one
StateOf(lk, c) == IF c \in DOMAIN lk THEN lk[c].state ELSE "draft"

\* the edges of the transition table of section 4.2
TableEdges ==
    {<<"draft", "revised">>, <<"draft", "canon_locked">>,
     <<"revised", "draft">>, <<"revised", "canon_locked">>,
     <<"revised", "published">>}

\* C1: once a chapter is PUBLISHED, every later set_state and unlock on it
\* raises and its stored state stays PUBLISHED.
C1_PublishedIsTerminal ==
    [][\A c \in Chapters :
          StateOf(locks, c) = "published" =>
             /\ StateOf(locks', c) = "published"
             /\ lockerCall'.chapter = c => lockerCall'.raised]_vars

\* an unlock with a 15-character reason was refused on a published chapter
C1_Witness ==
    \E c \in Chapters :
       /\ StateOf(locks, c) = "published"
       /\ lockerCall.chapter = c
       /\ lockerCall.before = "published"
       /\ lockerCall.raised
       /\ lockerCall.op = "unlock"
       /\ lockerCall.reason = "fixing typo now"

\* C2: unlock of a CANON_LOCKED chapter with a reason of 10 or more
\* characters returns normally and leaves the chapter REVISED.
C2_UnlockYieldsRevised ==
    [][(/\ lockerCall'.op = "unlock"
        /\ StateOf(locks, lockerCall'.chapter) = "canon_locked"
        /\ len(lockerCall'.reason) >= 10)
       => /\ ~lockerCall'.raised
          /\ StateOf(locks', lockerCall'.chapter) = "revised"]_vars

\* C3: unlock raises when the chapter is not CANON_LOCKED, and when it is
\* but the reason is empty or under 10 characters; the lock records and the
\* unlock audit log are then unchanged.
C3_UnlockRefusals ==
    [][(/\ lockerCall'.op = "unlock"
        /\ \/ StateOf(locks, lockerCall'.chapter) # "canon_locked"
           \/ len(lockerCall'.reason) < 10)
       => /\ lockerCall'.raised
          /\ locks' = locks
          /\ unlock_log' = unlock_log]_vars

\* a 9-character reason was refused on a CANON_LOCKED chapter
C3_Witness ==
    /\ lockerCall.op = "unlock"
    /\ lockerCall.reason = "too short"
    /\ lockerCall.raised
    /\ StateOf(locks, lockerCall.chapter) = "canon_locked"
    /\ lockerCall.before = "canon_locked"

\* C4: set_state(chapter, new) returns normally exactly when (current, new)
\* is an edge of the table; then the stored state is new; otherwise it
\* raises and the lock records are unchanged.
C4_SetStateFollowsTable ==
    [][lockerCall'.op = "set_state" =>
          LET c == lockerCall'.chapter
              new == lockerCall'.new_state
              edge == <<StateOf(locks, c), new>> \in TableEdges
          IN /\ ~lockerCall'.raised <=> edge
             /\ edge => StateOf(locks', c) = new
             /\ ~edge => locks' = locks]_vars

\* a REVISED chapter was published while another chapter has no record yet
C4_Witness ==
    /\ lockerCall.op = "set_state"
    /\ lockerCall.before = "revised"
    /\ lockerCall.new_state = "published"
    /\ ~lockerCall.raised
    /\ StateOf(locks, lockerCall.chapter) = "published"
    /\ \E c \in Chapters : c \notin DOMAIN locks

\* C5: every record in CANON_LOCKED or PUBLISHED has a non-empty lock_reason.
C5_LockedHasReason ==
    \A c \in DOMAIN locks :
       locks[c].state \in {"canon_locked", "published"} =>
          /\ locks[c].lock_reason # None
          /\ locks[c].lock_reason # Some("")

(***************************************************************************)
(* Properties of CanonManager's fact store (checked under SpecCanon)       *)
(***************************************************************************)
\* the version as three numbers
VersionOf(cn) ==
    LET parts == split(cn.version, ".")
    IN <<int(parts[1]), int(parts[2]), int(parts[3])>>

VersionLess(a, b) ==
    \/ a[1] < b[1]
    \/ a[1] = b[1] /\ a[2] < b[2]
    \/ a[1] = b[1] /\ a[2] = b[2] /\ a[3] < b[3]

FactOf(cn, category, fact_key) ==
    IF category \in DOMAIN cn.data
       /\ \E i \in DOMAIN cn.data[category] : cn.data[category][i].key = fact_key
    THEN Some(cn.data[category][CHOOSE i \in DOMAIN cn.data[category] :
                                   cn.data[category][i].key = fact_key].val)
    ELSE None

\* C6: a successful update_fact lengthens the fact's history by exactly one,
\* sets value to new_value, and the last history entry holds the value the
\* fact had before the call, with the given reason.
C6_UpdateAppendsHistory ==
    [][(canonCall'.op = "update_fact" /\ ~canonCall'.raised) =>
          LET old == FactOf(canon, canonCall'.category, canonCall'.fact_key)
              new == FactOf(canon', canonCall'.category, canonCall'.fact_key)
          IN /\ old # None
             /\ new # None
             /\ Len(new[1].history) = Len(old[1].history) + 1
             /\ new[1].value = canonCall'.value
             /\ new[1].history[Len(new[1].history)].old_value = old[1].value
             /\ new[1].history[Len(new[1].history)].reason = canonCall'.reason
             /\ SubSeq(new[1].history, 1, Len(old[1].history)) = old[1].history
       ]_vars

\* a fact was updated twice, the second time to a different value
C6_Witness ==
    /\ canonCall.op = "update_fact"
    /\ ~canonCall.raised
    /\ LET f == FactOf(canon, canonCall.category, canonCall.fact_key)
       IN /\ f # None
          /\ Len(f[1].history) = 2
          /\ f[1].history[2].old_value # f[1].value

\* C7: add_fact takes the version from M.m.p to M.m.(p+1), a successful
\* update_fact to M.(m+1).0; the major component never changes and the
\* version strictly increases with every fact mutation.
C7_VersionBumps ==
    [][LET v == VersionOf(canon)
           w == VersionOf(canon')
       IN /\ canonCall'.op = "add_fact" => w = <<v[1], v[2], v[3] + 1>>
          /\ (canonCall'.op = "update_fact" /\ ~canonCall'.raised)
                => w = <<v[1], v[2] + 1, 0>>
          /\ w[1] = v[1]
          /\ canon'.data # canon.data => VersionLess(v, w)
          /\ canon'.version = str(w[1]) \o <<".">> \o str(w[2])
                                 \o <<".">> \o str(w[3])]_vars

\* an update took version 1.9.9 to 1.10.0
C7_Witness ==
    /\ canonCall.op = "update_fact"
    /\ ~canonCall.raised
    /\ canon.version = <<"1", ".", "1", "0", ".", "0">>
    /\ VersionOf(canon) = <<1, 10, 0>>

\* C8: the value of an existing fact changes only through an operation that
\* appends the previous value to its history; a fact's history never shrinks
\* and a prior value is never lost, also when add_fact names an existing key.
C8_ValueChangesOnlyWithHistory ==
    [][\A c \in CallCategories, k \in FactKeys :
          LET old == FactOf(canon, c, k)
              new == FactOf(canon', c, k)
          IN old # None =>
               /\ new # None
               /\ Len(new[1].history) >= Len(old[1].history)
               /\ new[1].value # old[1].value =>
                     /\ Len(new[1].history) = Len(old[1].history) + 1
                     /\ new[1].history[Len(new[1].history)].old_value
                           = old[1].value]_vars

\* C9: update_fact on a (category, key) that is not in the store raises and
\* leaves the facts, the version and the changelog unchanged.
C9_UpdateMissingFails ==
    [][(/\ canonCall'.op = "update_fact"
        /\ FactOf(canon, canonCall'.category, canonCall'.fact_key) = None)
       => /\ canonCall'.raised
          /\ canon' = canon
          /\ changelog' = changelog]_vars

\* update_fact was refused for a key absent from a category that holds
\* another fact
C9_Witness ==
    /\ canonCall.op = "update_fact"
    /\ canonCall.raised
    /\ canonCall.category = "facts"
    /\ canon.data["facts"] # <<>>
    /\ FactOf(canon, "facts", canonCall.fact_key) = None

\* C10: from an empty store, add_fact("tommy_age", "19", "Chapter 1") then
\* validate_against_canon("Tommy, who was 17, walked in.") returns exactly one
\* finding: potential_inconsistency, canon value "19", severity warning.
C10_ScenarioOneFinding ==
    (/\ canon.version = <<"1", ".", "0", ".", "1">>
     /\ Len(changelog) = 1
     /\ changelog[1].action = "ADD_FACT"
     /\ changelog[1].details = <<"facts", "tommy_age", "19">>
     /\ changelog[1].affected_chapters = <<"Chapter 1">>
     /\ canonCall.op = "validate_against_canon"
     /\ canonCall.value = "Tommy, who was 17, walked in.")
    => /\ Len(canonCall.issues) = 1
       /\ canonCall.issues[1].type = "potential_inconsistency"
       /\ canonCall.issues[1].canon_value = "19"
       /\ canonCall.issues[1].severity = "warning"

(***************************************************************************)
(* Properties of ReferenceLoader (checked under SpecLoader)                *)
(***************************************************************************)
\* the inclusion table: for each loading context the classes it includes
InclusionTable ==
    [c \in LoadingContext |->
       CASE c = "drafting" -> {"canon", "context"}
         [] c = "revision" -> {"canon", "craft"}
         [] c = "consistency" -> {"canon", "context"}
         [] c = "style" -> {"craft"}
         [] c = "scene" -> {"canon", "context", "artifacts"}
         [] c = "full" -> {"canon", "context", "artifacts", "craft"}]

Loaded == loadCall.op = "load_for_context"

\* the returned text of a section, by its name in sources_loaded
Returned(b, name) ==
    CASE name = "canon" -> b.canon
      [] name = "context" -> b.context
      [] name = "artifacts" -> b.artifacts
      [] name = "craft" -> b.craft

\* what the reference tree holds for a section
Material(name) ==
    CASE name = "canon" -> load_canon(files, dirs)
      [] name = "context" -> load_context(files, dirs)
      [] name = "artifacts" -> load_artifacts(files, dirs, loadCall.artifact_ids)
      [] name = "craft" -> load_craft(files, dirs)

HeaderOf(name) ==
    CASE name = "canon" -> CLASS_HEADERS.canon
      [] name = "context" -> CLASS_HEADERS.context
      [] name = "artifacts" -> CLASS_HEADERS.artifact
      [] name = "craft" -> CLASS_HEADERS.craft

SectionNames == {"canon", "context", "artifacts", "craft"}
InSources(b, name) == \E i \in DOMAIN b.sources_loaded : b.sources_loaded[i] = name

DefaultBudget == 50000

Priority == <<"canon", "craft", "context", "artifacts">>

\* the section as it would be returned under an unlimited budget
Untruncated(name) ==
    IF name \in InclusionTable[loadCall.context] /\ Material(name) # <<>>
    THEN HeaderOf(name) \o Material(name)
    ELSE <<>>

PartlySliced(name) ==
    /\ Returned(bundle, name) # Untruncated(name)
    /\ Returned(bundle, name) # <<>>

\* C18: truncation priority is canon, craft, context, artifacts: canon comes
\* back in full unless canon alone exceeds the budget; a section is non-empty
\* only if every section of higher priority came back untruncated; at most
\* one section is partly sliced, and every section below it is empty
C18_TruncationPriority ==
    Loaded =>
       /\ estimate_tokens(Untruncated("canon")) <= loadCall.max_tokens =>
             bundle.canon = Untruncated("canon")
       /\ \A j \in DOMAIN Priority :
             Returned(bundle, Priority[j]) # <<>> =>
                \A i \in 1..(j - 1) :
                   Returned(bundle, Priority[i]) = Untruncated(Priority[i])
       /\ \A i \in DOMAIN Priority :
             PartlySliced(Priority[i]) =>
                \A j \in DOMAIN Priority :
                   j # i =>
                      /\ ~PartlySliced(Priority[j])
                      /\ j > i => Returned(bundle, Priority[j]) = <<>>

\* a full load where canon fits, craft is sliced, and context and artifacts,
\* which the tree has material for, come back empty
C18_Witness ==
    /\ Loaded
    /\ loadCall.context = "full"
    /\ bundle.canon = Untruncated("canon")
    /\ bundle.canon # <<>>
    /\ PartlySliced("craft")
    /\ Untruncated("context") # <<>>
    /\ Untruncated("artifacts") # <<>>
    /\ bundle.context = <<>>
    /\ bundle.artifacts = <<>>

(***************************************************************************)
(* Properties of ResearchDigestor (checked under SpecDigestor)             *)
(***************************************************************************)
\* the document id has shown status st at some time up to now
HasHeld(d, st) == \E h \in held[d] : h.status = st

StatusRank(st) ==
    CASE st = "unprocessed" -> 0
      [] st = "classified" -> 1
      [] st = "distilled" -> 2
      [] st = "promoted" -> 3

\* C11: over any sequence of ingest, classify, distill, promote and reject a
\* document's status never moves backward in the order unprocessed <
\* classified < distilled < promoted, and once it is promoted or rejected no
\* call changes it
C11_StatusNeverMovesBackward ==
    [][\A d \in DOMAIN metadata :
          d \in DOMAIN metadata' =>
             LET before == metadata[d].status
                 after == metadata'[d].status
             IN /\ before \in {"promoted", "rejected"} => after = before
                /\ (before # "rejected" /\ after # "rejected") =>
                      StatusRank(after) >= StatusRank(before)]_vars

\* C12: promote on a document that is still unprocessed fails and leaves the
\* record unchanged, and every promoted document was classified at some time
C12_PromoteNeedsClassified ==
    /\ [](\A d \in DOMAIN metadata :
             metadata[d].status = "promoted" => HasHeld(d, "classified"))
    /\ [][\A d \in DOMAIN metadata :
             (/\ digestCall'.op = "promote"
              /\ digestCall'.doc_id = d
              /\ digestCall' # digestCall
              /\ metadata[d].status = "unprocessed") =>
                /\ digestCall'.raised
                /\ metadata' = metadata]_vars

\* C13: distill on a document that is still unprocessed does not set its
\* status to distilled, and every distilled document was classified earlier
C13_DistillNeedsClassified ==
    /\ [](\A d \in DOMAIN metadata :
             metadata[d].status = "distilled" => HasHeld(d, "classified"))
    /\ [][\A d \in DOMAIN metadata :
             (/\ digestCall'.op = "distill"
              /\ digestCall'.doc_id = d
              /\ metadata[d].status = "unprocessed") =>
                metadata'[d].status # "distilled"]_vars

\* C14: promote on a document that is classified but not distilled does not
\* set its status to promoted, and every promoted document was distilled
\* earlier
C14_PromoteNeedsDistilled ==
    /\ [](\A d \in DOMAIN metadata :
             metadata[d].status = "promoted" => HasHeld(d, "distilled"))
    /\ [][\A d \in DOMAIN metadata :
             (/\ digestCall'.op = "promote"
              /\ digestCall'.doc_id = d
              /\ metadata[d].status = "classified") =>
                metadata'[d].status # "promoted"]_vars

\* a distill call on a known document has just returned or raised
DistillStep(d) ==
    /\ d \in DOMAIN metadata
    /\ digestCall'.op = "distill"
    /\ digestCall'.doc_id = d
    /\ (digestCall' # digestCall \/ metadata' # metadata)

\* what the collaborator's response parses to, or None when it does not parse
ParsedObject(outcome) ==
    CASE outcome = "{\"facts\":[],\"period_details\":[\"radio was common\"]}" ->
            Some(<<[key |-> "facts", val |-> <<>>],
                   [key |-> "period_details", val |-> <<"radio was common">>]>>)
      [] outcome = "Here: {\"facts\":[]} done" ->
            Some(<<[key |-> "facts", val |-> <<>>]>>)
      [] outcome = "{}" -> Some(<<>>)
      [] OTHER -> None

\* the digest holds the parsed object when the response parses, and otherwise
\* the raw response or the error text under a fallback key
DigestFollowsOutcome(digest, outcome) ==
    IF outcome = "raises" THEN digest = <<[key |-> "error", val |-> "timeout"]>>
    ELSE IF ParsedObject(outcome) # None THEN digest = ParsedObject(outcome)[1]
    ELSE digest = <<[key |-> "raw_response", val |-> outcome]>>

\* C16 as stated: distill on a known document never propagates a failure of
\* the collaborator; it returns with status distilled and a non-empty digest
\* on the record, the parsed object when the response parses and otherwise
\* the raw response or error text under a fallback key
C16_DistillStoresNonEmptyDigest ==
    [][\A d \in DocIds :
          DistillStep(d) =>
             /\ ~digestCall'.raised
             /\ metadata'[d].status = "distilled"
             /\ metadata'[d].digest # None
             /\ metadata'[d].digest # Some(<<>>)
             /\ DigestFollowsOutcome(metadata'[d].digest[1], digestCall'.outcome)]_vars

\* C16 amended: distill on a known document never propagates a failure of
\* the collaborator; it returns with status distilled and a digest stored on
\* the record: the parsed object when the response parses (empty when the
\* response's object is empty), and otherwise a non-empty object holding the
\* raw response or error text under a fallback key
C16_DistillStoresDigest ==
    [][\A d \in DocIds :
          DistillStep(d) =>
             /\ ~digestCall'.raised
             /\ metadata'[d].status = "distilled"
             /\ metadata'[d].digest # None
             /\ DigestFollowsOutcome(metadata'[d].digest[1], digestCall'.outcome)
             /\ ParsedObject(digestCall'.outcome) = None =>
                   metadata'[d].digest # Some(<<>>)]_vars

\* the collaborator raised and the document is distilled with the error text
\* as its digest
C16_Witness ==
    /\ digestCall.op = "distill"
    /\ digestCall.outcome = "raises"
    /\ ~digestCall.raised
    /\ digestCall.doc_id \in DOMAIN metadata
    /\ metadata[digestCall.doc_id].status = "distilled"
    /\ metadata[digestCall.doc_id].digest = Some(<<[key |-> "error", val |-> "timeout"]>>)

\* the document went through classified as CONTEXT and distilled, and is now
\* promoted to CONTEXT
PromotedContext(d) ==
    /\ d \in DOMAIN metadata
    /\ metadata[d].status = "promoted"
    /\ metadata[d].research_class = Some("context")
    /\ [status |-> "unprocessed", research_class |-> None] \in held[d]
    /\ [status |-> "classified", research_class |-> Some("context")] \in held[d]
    /\ [status |-> "distilled", research_class |-> Some("context")] \in held[d]

\* C19: after a document is ingested, classified as CONTEXT, distilled and
\* promoted to CONTEXT, a bundle loaded for drafting has the document's
\* content in its context section and a bundle loaded for style checking
\* does not
C19_PromotedContextIsLoaded ==
    [][(/\ PromotedContext("26b1720ad323")
        /\ loadCall'.op = "load_for_context"
        /\ <<loadCall, bundle>>' # <<loadCall, bundle>>) =>
          /\ loadCall'.context = "drafting" =>
                contains(bundle'.context, Chars("radio was common"))
          /\ loadCall'.context = "style" =>
                ~contains(bundle'.context, Chars("radio was common"))]_vars

(***************************************************************************)
(* Properties of ResearchIngestService (checked under SpecIngest)          *)
(***************************************************************************)
\* an ingest call on a file that is there has just returned or raised
IngestStep ==
    /\ ingestCall'.op = "ingest"
    /\ ingestCall'.file_hash # ""
    /\ (ingestCall' # ingestCall \/ registry' # registry)

\* some record with this hash is not rejected
LiveRecordWithHash(h) ==
    \E k \in DOMAIN registry :
       registry[k].file_hash = h /\ registry[k].status # "rejected"

\* C15: ingest of a file whose content hash equals that of a record that is
\* not rejected fails with the duplicate error and leaves registry and files
\* as they were; when every record with that hash is rejected, or there is
\* none, it succeeds and the registry holds, under the returned id, a record
\* with that hash, status intake and class unclassified, the records under
\* the other ids being unchanged
C15_DuplicateIngestRefused ==
    [][IngestStep =>
          LET h == ingestCall'.file_hash
          IN /\ LiveRecordWithHash(h) =>
                   /\ ingestCall'.raised
                   /\ ingestCall'.error = "ValueError: Duplicate document"
                   /\ registry' = registry
                   /\ files' = files
             /\ ~LiveRecordWithHash(h) =>
                   /\ ~ingestCall'.raised
                   /\ ingestCall'.returned # None
                   /\ ingestCall'.returned[1] \in DOMAIN registry'
                   /\ registry'[ingestCall'.returned[1]].file_hash = h
                   /\ registry'[ingestCall'.returned[1]].status = "intake"
                   /\ registry'[ingestCall'.returned[1]].research_class = "unclassified"
                   /\ \A k \in DOMAIN registry \ {ingestCall'.returned[1]} :
                         k \in DOMAIN registry' /\ registry'[k] = registry[k]]_vars

\* a file was ingested again after its first record was rejected: the
\* registry holds the rejected record and a new intake record with its hash
C15_Witness ==
    /\ ingestCall.op = "ingest"
    /\ ~ingestCall.raised
    /\ ingestCall.returned # None
    /\ registry[ingestCall.returned[1]].status = "intake"
    /\ \E k \in DOMAIN registry \ {ingestCall.returned[1]} :
          /\ registry[k].file_hash = ingestCall.file_hash
          /\ registry[k].status = "rejected"

\* an approve_and_place call on document k has just returned normally
ApproveStep(k) ==
    /\ ingestCall'.op = "approve_and_place"
    /\ ingestCall'.doc_id = k
    /\ ~ingestCall'.raised
    /\ registry' # registry

\* C20: after approve_and_place succeeds the document's final_path is set and
\* names a copy of the digest when a digest exists and a copy of the raw file
\* when none exists, and no approved document has an unset final_path
C20_PromotionSetsFinalPath ==
    /\ [](\A k \in DOMAIN registry :
             registry[k].status = "approved" => registry[k].final_path # None)
    /\ [][\A k \in DOMAIN registry :
             ApproveStep(k) =>
                /\ registry'[k].final_path # None
                /\ registry'[k].final_path[1] \in DOMAIN files'
                /\ files'[registry'[k].final_path[1]] =
                      IF /\ registry[k].digest_path # None
                         /\ registry[k].digest_path[1] \in DOMAIN files
                      THEN files[registry[k].digest_path[1]]
                      ELSE files[registry[k].raw_path]]_vars

(***************************************************************************)
(* Further properties of ReferenceLoader (checked under SpecLoader)        *)
(***************************************************************************)
\* the sum of the returned sections' token estimates, length div 4 each
SectionTokens(b) ==
    Len(b.canon) \div 4 + Len(b.context) \div 4
    + Len(b.artifacts) \div 4 + Len(b.craft) \div 4

\* truncation was triggered: the untruncated sections exceed the budget
TruncationTriggered ==
    Len(Untruncated("canon")) \div 4 + Len(Untruncated("context")) \div 4
    + Len(Untruncated("artifacts")) \div 4 + Len(Untruncated("craft")) \div 4
       > loadCall.max_tokens

\* C27: the returned sections' token estimates sum to at most max_tokens
\* whenever truncation was triggered, and the reported total_tokens equals
\* that sum in all cases
C27_TokenTotals ==
    Loaded =>
       /\ TruncationTriggered => SectionTokens(bundle) <= loadCall.max_tokens
       /\ bundle.total_tokens = SectionTokens(bundle)

\* a truncated bundle with two non-empty sections whose estimates add up to
\* the budget
C27_Witness ==
    /\ Loaded
    /\ TruncationTriggered
    /\ loadCall.max_tokens > 0
    /\ bundle.canon # <<>>
    /\ PartlySliced("craft")
    /\ bundle.total_tokens = loadCall.max_tokens
    /\ SectionTokens(bundle) = loadCall.max_tokens

\* C30: sources_loaded names a class exactly when the bundle's text for that
\* class is non-empty, also when sections were truncated or dropped
C30_SourcesMatchText ==
    Loaded =>
       \A name \in SectionNames :
          InSources(bundle, name) <=> Returned(bundle, name) # <<>>

(***************************************************************************)
(* Further properties of ChapterLocker (checked under SpecLocker)          *)
(***************************************************************************)
\* C28: the unlock audit log gets an entry only from an unlock call that
\* returns normally and changes the chapter from CANON_LOCKED to REVISED; an
\* unlock call that raises leaves the log as it was
C28_UnlockLogAllOrNothing ==
    [][unlock_log' # unlock_log =>
          /\ lockerCall'.op = "unlock"
          /\ ~lockerCall'.raised
          /\ StateOf(locks, lockerCall'.chapter) = "canon_locked"
          /\ StateOf(locks', lockerCall'.chapter) = "revised"]_vars

(***************************************************************************)
(* Further properties of ResearchIngestService (checked under SpecIngest)  *)
(***************************************************************************)
\* C29: at most one record with a given content hash has a status other than
\* rejected
C29_OneLiveRecordPerHash ==
    \A j, k \in DOMAIN registry :
       (/\ registry[j].file_hash = registry[k].file_hash
        /\ registry[j].status # "rejected"
        /\ registry[k].status # "rejected") => j = k

(***************************************************************************)
(* CanonManager chapter-state calls                                        *)
(***************************************************************************)
ChapterNames == {"ch5", "ch6"}
ChapterReasons == {None, Some(""), Some("too short"), Some("fixing typo now")}

\* a call of set_chapter_state(chapter_name, state, reason)
SetChapterState(chapter_name, state, reason) ==
    LET r == set_chapter_state(chapter_states, changelog, clock, chapter_name,
                               state, reason) IN
    /\ ~r.raised => clock <= MaxChapterOps
    /\ chapter_states' = r.chapter_states
    /\ changelog' = r.changelog
    /\ clock' = IF r.raised THEN clock ELSE clock + 1
    /\ chapterCall' = [op |-> "set_chapter_state", chapter |-> chapter_name,
                       state |-> state, reason |-> reason,
                       before |-> get_chapter_state(chapter_states, chapter_name),
                       raised |-> r.raised]
    /\ UNCHANGED <<canon, canonCall, lockerVars, fsVars, loaderVars,
                   digestorVars, ingestVars, settingsVars, checkerVars>>

NextChapters ==
    \E chapter_name \in ChapterNames, state \in ChapterState,
       reason \in ChapterReasons :
        SetChapterState(chapter_name, state, reason)

SpecChapters == Init /\ [][NextChapters]_vars

(***************************************************************************)
(* Settings calls                                                          *)
(***************************************************************************)
KeyPaths == {<<"ai", "provider">>, <<"ui", "theme">>, <<"ai">>, <<"ui">>,
             <<"test", "key">>, <<"autosave", "enabled">>}
SettingValues == {<<"str", "claude">>, <<"str", "test_value">>, <<"bool", FALSE>>}
Providers == {"openai", "claude", "invalid", ""}
Themes == {"light", "dark", "invalid", ""}

\* what a Settings call leaves: set ends with save_config, unless it raised
SettingsReturns(op, keys, value, r) ==
    /\ config' = r.config
    /\ saved_config' = IF r.called /\ ~r.raised THEN r.config ELSE saved_config
    /\ settingsCall' = [op |-> op, keys |-> keys, value |-> value,
                        raised |-> r.raised]
    /\ UNCHANGED <<clock, lockerVars, canonVars, fsVars, loaderVars,
                   digestorVars, ingestVars, chapterVars, checkerVars>>

\* a call of set(key_path, value)
Set(keys, value) ==
    SettingsReturns("set", keys, value,
                    settings_set(config, keys, value) @@ [called |-> TRUE])

\* a call of set_ai_provider(provider)
SetAiProvider(provider) ==
    SettingsReturns("set_ai_provider", <<"ai", "provider">>, <<"str", provider>>,
                    set_ai_provider(config, provider))

\* a call of set_theme(theme)
SetTheme(theme) ==
    SettingsReturns("set_theme", <<"ui", "theme">>, <<"str", theme>>,
                    set_theme(config, theme))

NextSettings ==
    \/ \E keys \in KeyPaths, value \in SettingValues : Set(keys, value)
    \/ \E provider \in Providers : SetAiProvider(provider)
    \/ \E theme \in Themes : SetTheme(theme)

SpecSettings == Init /\ [][NextSettings]_vars

(***************************************************************************)
(* Claims C24, C25: CanonManager chapter states                            *)
(***************************************************************************)
\* this step is a set_chapter_state call
ChapterStep ==
    /\ chapterCall'.op = "set_chapter_state"
    /\ <<chapter_states, chapterCall, changelog, clock>>'
         # <<chapter_states, chapterCall, changelog, clock>>

HistoryOf(cs, c) == IF c \in DOMAIN cs THEN cs[c].unlock_history ELSE <<>>

\* C24: a set_chapter_state call that moves a chapter out of CANON_LOCKED or
\* PUBLISHED raises and leaves the chapter states alone unless its reason has
\* at least 10 characters, and with such a reason it succeeds and appends
\* exactly one unlock_history entry {from_state, to_state, reason, timestamp}
C24_UnlockNeedsLongReason ==
    [][ChapterStep =>
        LET call == chapterCall'
            leaves == /\ call.before \in {CANON_LOCKED, PUBLISHED}
                      /\ call.state # call.before
            long == /\ call.reason # None
                    /\ len(call.reason[1]) >= 10
        IN  leaves =>
              IF long
              THEN /\ ~call.raised
                   /\ get_chapter_state(chapter_states', call.chapter) = call.state
                   /\ Len(HistoryOf(chapter_states', call.chapter))
                        = Len(HistoryOf(chapter_states, call.chapter)) + 1
                   /\ LET e == HistoryOf(chapter_states', call.chapter)[
                                 Len(HistoryOf(chapter_states', call.chapter))]
                      IN  /\ e.from_state = call.before
                          /\ e.to_state = call.state
                          /\ e.reason = call.reason[1]
              ELSE /\ call.raised
                   /\ chapter_states' = chapter_states]_vars

\* C25: once a chapter is PUBLISHED every set_chapter_state call on it
\* raises, it stays PUBLISHED and is_editable stays false
C25_PublishedIsTerminal ==
    [][\A c \in ChapterNames :
          get_chapter_state(chapter_states, c) = PUBLISHED =>
             /\ (ChapterStep /\ chapterCall'.chapter = c) => chapterCall'.raised
             /\ get_chapter_state(chapter_states', c) = PUBLISHED
             /\ ~is_editable(chapter_states', c)]_vars

(***************************************************************************)
(* Claim C26: Settings                                                     *)
(***************************************************************************)
\* C26: set_ai_provider and set_theme with a value outside openai/claude and
\* light/dark leave the whole configuration unchanged, and with an allowed
\* value the matching getter returns that value afterwards
C26_SettersValidate ==
    [][/\ (settingsCall'.op = "set_ai_provider" /\ settingsCall' # settingsCall) =>
            IF settingsCall'.value[2] \in {"openai", "claude"}
            THEN get_ai_provider(config') = settingsCall'.value
            ELSE config' = config
       /\ (settingsCall'.op = "set_theme" /\ settingsCall' # settingsCall) =>
            IF settingsCall'.value[2] \in {"light", "dark"}
            THEN get_theme(config') = settingsCall'.value
            ELSE config' = config]_vars

(***************************************************************************)
(* RegressionChecker calls                                                 *)
(***************************************************************************)
\* the text of a chapter file with the given lines
text_of(lines, trailing_newline) ==
    join(<<"\n">>, [i \in DOMAIN lines |-> Chars(lines[i])])
    \o (IF trailing_newline THEN <<"\n">> ELSE <<>>)

\* a line of unattributed dialogue, and one with an attribution verb
DialogueLines == {"\"Go.\"", "\"Go,\" she said."}
DialogueChapters ==
    {[name |-> "chapter_01", content |-> text_of(lines, trailing_newline)] :
        lines \in UNION {[1..n -> DialogueLines] : n \in 0..MaxLines},
        trailing_newline \in BOOLEAN}

ProseTexts == {<<"Tommy was 17 years old.">>,
               <<"Tommy, aged 19, ran to the Big Top.",
                 "The big top rose on Monday, May 3, 1954.">>,
               <<"A 17-year-old Tommy held the pocket watch under the big top.">>,
               <<"No one came on 5/3/54.">>}
ProseChapters(name) ==
    {[name |-> name, content |-> text_of(lines, FALSE)] : lines \in ProseTexts}

\* no chapter, one chapter, or two chapters of prose
CheckerChapters ==
    {<<>>}
    \cup {<<c>> : c \in DialogueChapters \cup ProseChapters("chapter_01")}
    \cup {<<c, d>> : c \in ProseChapters("chapter_01"),
                     d \in ProseChapters("chapter_02")}

\* the Fact Store as constructed, and after four add_fact calls
CheckerStores ==
    LET s0 == [canon |-> create_default_canon(0), changelog |-> <<>>]
        s1 == add_fact(s0.canon, s0.changelog, 1, "tommy_age", "19",
                       "Chapter 1", "characters")
        s2 == add_fact(s1.canon, s1.changelog, 2, "big_top", "main tent",
                       "Chapter 1", "locations")
        s3 == add_fact(s2.canon, s2.changelog, 3, "opening_night",
                       "Monday, May 3, 1954", "Chapter 1", "timeline")
        s4 == add_fact(s3.canon, s3.changelog, 4, "pocket_watch", "gold",
                       "Chapter 1", "objects")
    IN  {s0, [canon |-> s4.canon, changelog |-> s4.changelog]}

InitChecker ==
    /\ locks = [c \in {} |-> 0]
    /\ unlock_log = <<>>
    /\ clock = 5
    /\ lockerCall = NoLockerCall
    /\ \E store \in CheckerStores :
          /\ canon = store.canon
          /\ changelog = store.changelog
    /\ canonCall = NoCanonCall
    /\ files = file_system({})
    /\ dirs = {}
    /\ loadCall = NoLoadCall
    /\ bundle = NoBundle
    /\ metadata = [d \in {} |-> 0]
    /\ held = [d \in {} |-> {}]
    /\ digestCall = NoDigestCall
    /\ registry = [d \in {} |-> 0]
    /\ second = 0
    /\ ingestCall = NoIngestCall
    /\ chapter_states = [c \in {} |-> 0]
    /\ chapterCall = NoChapterCall
    /\ config = default_config
    /\ saved_config = default_config
    /\ settingsCall = NoSettingsCall
    /\ chapters \in CheckerChapters
    /\ report = NoReport

CheckNames == {"character_ages", "locations", "timeline", "object_continuity",
               "dialogue_attribution"}

\* a call of one of the five checks with the chapters
RunCheck(check_name) ==
    /\ report = NoReport
    /\ report' =
         [op |-> check_name,
          issues |->
             CASE check_name = "character_ages" ->
                      check_character_ages(canon, chapters)
               [] check_name = "locations" -> check_locations(canon, chapters)
               [] check_name = "timeline" -> check_timeline(canon, chapters)
               [] check_name = "object_continuity" ->
                      check_object_continuity(canon, chapters)
               [] check_name = "dialogue_attribution" ->
                      check_dialogue_attribution(chapters)]
    /\ UNCHANGED <<chapters, clock, lockerVars, canonVars, fsVars, loaderVars,
                   digestorVars, ingestVars, chapterVars, settingsVars>>

\* a call of run_all_checks(chapters)
RunAllChecks ==
    /\ report = NoReport
    /\ report' = [op |-> "run_all_checks",
                  results |-> run_all_checks(canon, chapters, clock)]
    /\ UNCHANGED <<chapters, clock, lockerVars, canonVars, fsVars, loaderVars,
                   digestorVars, ingestVars, chapterVars, settingsVars>>

NextChecker ==
    \/ \E check_name \in CheckNames : RunCheck(check_name)
    \/ RunAllChecks

SpecChecker == InitChecker /\ [][NextChecker]_vars

(***************************************************************************)
(* Claims C21, C22, C23: RegressionChecker                                 *)
(***************************************************************************)
\* C21: a RegressionChecker call leaves the facts, their histories, the store
\* version, the changelog and the chapter texts as they were, and the
\* summary total of run_all_checks is the sum of the five per-check counts
C21_ChecksAreReadOnly ==
    [][report' # report =>
        /\ canon' = canon
        /\ changelog' = changelog
        /\ chapters' = chapters
        /\ report'.op = "run_all_checks" =>
              LET checks == report'.results.checks
                  summary == report'.results.summary
              IN  /\ \A name \in CheckNames : summary[name] = Len(checks[name])
                  /\ summary.total
                       = Len(checks.character_ages) + Len(checks.locations)
                         + Len(checks.timeline) + Len(checks.object_continuity)
                         + Len(checks.dialogue_attribution)]_vars

\* run_all_checks has reported findings of every check over a store with facts
C21_Witness ==
    /\ report.op = "run_all_checks"
    /\ \A name \in CheckNames \ {"dialogue_attribution"} :
          report.results.summary[name] >= 1
    /\ report.results.summary.total >= 5
    /\ Len(changelog) = 4
    /\ Len(chapters) = 2

\* the lines of a chapter that hold quoted speech and no attribution verb
Unattributed(content) ==
    LET lines == split(content, "\n")
    IN  {i \in DOMAIN lines :
            /\ \E k \in 1..(Len(lines[i]) - 1) :
                   lines[i][k] = "\"" /\ lines[i][k + 1] # "\""
            /\ \A w \in DOMAIN AttributionWords :
                   ~contains(lower(lines[i]), Chars(AttributionWords[w]))}

\* the first lines of the maximal runs of five or more unattributed lines
LongRuns(content) ==
    LET u == Unattributed(content)
    IN  {i \in u : /\ (i - 1) \notin u
                   /\ \A k \in 0..4 : (i + k) \in u}

\* C22: check_dialogue_attribution reports exactly one warning for every
\* maximal run of five or more unattributed dialogue lines of a chapter,
\* wherever the run lies, and none for a shorter run
C22_EveryLongRunFlagged ==
    report.op = "dialogue_attribution" =>
       \A c \in DOMAIN chapters :
          LET found == {j \in DOMAIN report.issues :
                           report.issues[j].chapter = chapters[c].name}
          IN  /\ \A i \in LongRuns(chapters[c].content) :
                    Cardinality({j \in found : report.issues[j].line = i}) = 1
              /\ \A j \in found :
                    report.issues[j].line \in LongRuns(chapters[c].content)

\* C23: check_locations reports an item for every canon location whose
\* normalized name is in at least one chapter, also for one that occurs just
\* once, and none for a location that is in no chapter
C23_EveryLocationReported ==
    report.op = "locations" =>
       LET facts == get_all_facts(canon, "locations")
       IN  \A f \in DOMAIN facts :
              LET loc_name == lower(replace(Chars(facts[f].key), "_", " "))
                  occurs == \E c \in DOMAIN chapters :
                               contains(lower(chapters[c].content), loc_name)
              IN  occurs <=> \E j \in DOMAIN report.issues :
                                /\ report.issues[j].location = loc_name
                                /\ report.issues[j].severity = "info"

====
